---- MODULE Spec2Model ----
(***************************************************************************)
(* Stream lifecycle of the LAN video server.                               *)
(*                                                                         *)
(* Two server programs live in the repository and share the registry      *)
(* helpers, the /tmp/hls_<id> output directories and the durable store     *)
(* torrent-state.json:                                                     *)
(*   - server.js with lib/hls (second half of src/lib/utils.js) and        *)
(*     lib/torrent (src/unnamed/part_006): specification Spec, SpecLocal   *)
(*     for the handlers of its local-file jobs, SpecPoll and SpecManifest  *)
(*     for its manifest route, SpecSegment for its segment routes,         *)
(*     SpecSeek and SpecExit for its local-file jobs with the writes and   *)
(*     exits of their transcoders, SpecProbe for the validation of a       *)
(*     local file, SpecPipe for the pipe into a torrent transcoder,        *)
(*     SpecTimeout for the timeout of getEngine, SpecSweep for             *)
(*     removeStream and cleanupOldStreams over drawn registries,           *)
(*     SpecTouch for the idle clock under its routes, SpecRestart for      *)
(*     the end of the server process and its next startup;                 *)
(*   - server-old.js: specification SpecOld, SpecRecover for its startup   *)
(*     over everything an earlier run can leave behind, SpecStore for its  *)
(*     durable store under jobs of two torrents, SpecUpgrade for its       *)
(*     background downloads of a better quality, SpecBadStart for its      *)
(*     torrent starts over valid and invalid file indexes, SpecSeekOld     *)
(*     for its seek route.                                                 *)
(*                                                                         *)
(* Node runs every handler on one event loop: a handler runs without       *)
(* interleaving from its start to its first real await, and from one       *)
(* await to the next.  Each such stretch is one action.  An await of an    *)
(* already settled value resumes in the same macrotask and is not a        *)
(* yield.                                                                  *)
(*                                                                         *)
(* A child process is a record {killed, exitCode}.  kill() on a process    *)
(* that has not exited sends the signal and sets killed; the process exits *)
(* later, in a separate step: either at once, or after it has finalised    *)
(* the segment it was writing and rewritten its playlist.  No handler      *)
(* awaits the exit of a process it has signalled.                          *)
(*                                                                         *)
(* The stdin of a transcoder fed through a pipe is a buffer of chunks with *)
(* a high water mark; write() returns false once the mark is reached and   *)
(* "drain" is emitted when the buffer empties after that.                  *)
(***************************************************************************)
EXTENDS Integers, Sequences, FiniteSets, TLC

VARIABLES
    booted,         \* the app.listen callback has run
    activeStreams,  \* Map streamId -> entry, in insertion order
    procs,          \* every child process spawned so far; pid = index
    dirs,           \* /tmp/hls_<streamId>: existence, playlist, segment files
    store,          \* torrent-state.json: streamId -> state, in insertion order
    engines,        \* every torrent-stream engine created so far
    torrentEngines, \* Map infoHash -> engine (0: absent)
    reqs,           \* HTTP requests received so far, in arrival order
    restore,        \* position of restoreTorrentStreams (server-old.js)
    now,            \* Date.now(), in minutes
    backgroundDownloads \* Map streamId -> download of a better quality

vars == <<booted, activeStreams, procs, dirs, store, engines, torrentEngines,
          reqs, restore, now, backgroundDownloads>>

----------------------------------------------------------------------------
\* Bounds of the model.
MaxReqs == 2
MaxLocalReqs == 3
MaxExitReqs == 2
MaxSeekOldReqs == 1
MaxBadReqs == 2
MaxSweep == 2
MaxTimeoutReqs == 3
MaxProbeReqs == 3
MaxPipeReqs == 2
MaxChunks == 3
MaxTime == 11
MaxSeg == 1

\* Program constants.
IdleMinutes == 10
SegmentDuration == 4
ConfigSegmentDuration == 4

NoObj == "none"

Hashes == {"h1", "h2"}
\* the torrent whose episodes the requests of Spec, SpecOld and SpecRecover name
OneTorrent == {"h1"}
FileIndexes == {0, 1, 10}
\* the files that the requests of Spec, SpecOld and SpecStore name
Episodes == {0, 1}
LocalFiles == {"f1"}
Urls == {"u1"}
SeekPositions == {5, 9}
TickSteps == {10, 11}

\* streamId = `ts_${engine.infoHash}_${fileIndex}`
TorrentId(h, i) == "ts_" \o h \o "_" \o ToString(i)
\* streamId = `local_${utils.hashId(fullPath)}`
LocalId(f) == "local_" \o f
\* streamId = "yt_" + md5(inputUrl).slice(0, 12)
UrlId(u) == "yt_" \o u

TorrentIds == {TorrentId(h, i) : h \in Hashes, i \in FileIndexes}
EpisodeIds == {TorrentId(h, i) : h \in OneTorrent, i \in Episodes}
LocalIds == {LocalId(f) : f \in LocalFiles}
UrlIds == {UrlId(u) : u \in Urls}
Ids == TorrentIds \cup LocalIds \cup UrlIds

----------------------------------------------------------------------------
\* A JavaScript Map (or a JSON object) as the sequence of its entries in
\* insertion order; every entry carries its key in the field id.
Has(m, k) == \E i \in DOMAIN m : m[i].id = k
Get(m, k) == m[CHOOSE i \in DOMAIN m : m[i].id = k]
MapSet(m, e) ==
    IF Has(m, e.id)
    THEN [i \in DOMAIN m |-> IF m[i].id = e.id THEN e ELSE m[i]]
    ELSE Append(m, e)
MapDelete(m, k) == SelectSeq(m, LAMBDA e : e.id # k)

\* ---- child processes ----
\* the pipe between the source read stream and the stdin of a transcoder:
\* chunks read from the source, chunks written and not yet taken by the
\* transcoder, whether a write has returned false since the last drain, and
\* whether the source is paused
\* the high water mark of stdin in chunks: a chunk of the source (64 KiB) is
\* larger than the buffer of a writable stream (16 KiB), so write() returns
\* false as soon as one chunk is buffered
HighWaterMark == 1
NoPipe == [read |-> 0, buffered |-> 0, needDrain |-> FALSE, paused |-> FALSE]

NewProc(dir, role, startNumber, seek, by) ==
    [dir |-> dir, role |-> role, killed |-> FALSE, exitCode |-> -1,
     startNumber |-> startNumber, next |-> startNumber, seek |-> seek, by |-> by,
     pipe |-> NoPipe]

\* exitCode -1 stands for null: the process has not exited
Alive(p) == p.exitCode = -1
\* proc.exitCode === null && !proc.killed
Running(p) == ~p.killed /\ p.exitCode = -1

\* a kill that also marks a handle that is closed
KillAny(ps, pids) ==
    [i \in DOMAIN ps |-> IF i \in pids THEN [ps[i] EXCEPT !.killed = TRUE] ELSE ps[i]]

\* subprocess.kill(): the signal is sent only while the handle is open
Kill(ps, pids) ==
    [i \in DOMAIN ps |->
        IF i \in pids /\ ps[i].exitCode = -1
        THEN [ps[i] EXCEPT !.killed = TRUE] ELSE ps[i]]

Range(s) == {s[i] : i \in DOMAIN s}

\* ---- directories ----
EmptyDir == [exists |-> TRUE, m3u8 |-> "none", segs |-> {}]
NoDir == [exists |-> FALSE, m3u8 |-> "none", segs |-> {}]

resetDir(d, id) == [d EXCEPT ![id] = EmptyDir]

\* ---- registry helpers (lib/hls) ----
NoEntry == [id |-> "", obj |-> NoObj, proc |-> <<>>, isArr |-> FALSE,
            type |-> "", lastUsed |-> 0, seekPosition |-> -1, engine |-> 0,
            fileIndex |-> 0, finished |-> FALSE]

getStream(id) == IF Has(activeStreams, id) THEN Get(activeStreams, id) ELSE NoEntry

isStreamActive(entry) ==
    /\ entry.obj # NoObj
    /\ \E i \in DOMAIN entry.proc :
           entry.proc[i] \in DOMAIN procs /\ Running(procs[entry.proc[i]])

\* p.kill("SIGTERM") on an empty slot of a process list raises a TypeError
killRaises(ps, p) == p \notin DOMAIN ps

\* try { ... } catch (_) {}: what leaves the block when something was raised
\* in it; catchNone is a block without the catch
catchNone(raised) == raised
catchAll(raised) == FALSE

\* the registry and the process table after removeStream(id), and whether an
\* error has left it: the kills are inside try blocks, activeStreams.delete
\* follows them
removeStream(st, id) ==
    IF Has(st.streams, id)
    THEN LET pids == Range(Get(st.streams, id).proc)
         IN IF catchAll(\E p \in pids : killRaises(st.procs, p))
            THEN [st EXCEPT !.raised = TRUE]
            ELSE [streams |-> MapDelete(st.streams, id),
                  procs |-> Kill(st.procs, pids),
                  raised |-> st.raised]
    ELSE st

\* cleanupOldStreams(maxAgeMs = 10 * 60 * 1000): removeStream for every
\* entry with now - lastUsed > maxAge, in Map order; an error that leaves
\* removeStream ends the loop
RECURSIVE cleanupFrom(_, _)
cleanupFrom(st, todo) ==
    IF todo = <<>> \/ st.raised THEN st
    ELSE cleanupFrom(
            IF Has(st.streams, Head(todo).id)
               /\ now - Head(todo).lastUsed > IdleMinutes
            THEN removeStream(st, Head(todo).id) ELSE st,
            Tail(todo))
cleanupOldStreams ==
    cleanupFrom([streams |-> activeStreams, procs |-> procs, raised |-> FALSE],
                activeStreams)

\* ---- durable store (lib/torrent) ----
\* a write that does not read the file first
saveFresh(st, infoHash, magnetURI, fileIndex, streamId) ==
    <<[id |-> streamId, infoHash |-> infoHash, magnetURI |-> magnetURI,
       fileIndex |-> fileIndex, savedAt |-> now]>>

saveTorrentState(st, infoHash, magnetURI, fileIndex, streamId) ==
    MapSet(st, [id |-> streamId, infoHash |-> infoHash, magnetURI |-> magnetURI,
                fileIndex |-> fileIndex, savedAt |-> now])
removeTorrentState(st, streamId) == MapDelete(st, streamId)

----------------------------------------------------------------------------
\* Requests.  pc: "engine" (awaiting the engine's ready event), "segment"
\* (polling for the first segment), "extract" (awaiting yt-dlp), "poll"
\* (polling for the playlist), "done".
NewReq(kind, sid, pos) ==
    [kind |-> kind, sid |-> sid, pos |-> pos, pc |-> "done", status |-> 0,
     eng |-> 0, spawned |-> 0, out |-> "", obj |-> NoObj, attempts |-> 0,
     probe |-> 0,
     conc |-> {i \in DOMAIN reqs : reqs[i].pc # "done"}]

ReqObj(r) == "req" \o ToString(r)

----------------------------------------------------------------------------
\* What an earlier run of either server can leave behind: an output
\* directory with a playlist and its first segment, and the durable entry of
\* the torrent job that wrote it.  by = 0: written before this run.
LiveDir == [exists |-> TRUE, m3u8 |-> "live", segs |-> {[n |-> 0, by |-> 0]}]
EndedDir == [exists |-> TRUE, m3u8 |-> "end", segs |-> {[n |-> 0, by |-> 0]}]

\* a file index that no file of a torrent has
BadIndex == 99
FileOf(id) == CHOOSE i \in FileIndexes \cup {BadIndex} :
                  \E h \in Hashes : TorrentId(h, i) = id
HashOf(id) == CHOOSE h \in Hashes : \E i \in FileIndexes : TorrentId(h, i) = id

StateOf(id, t) == [id |-> id, infoHash |-> HashOf(id), magnetURI |-> HashOf(id),
                   fileIndex |-> FileOf(id), savedAt |-> t]

InitWith(Leftover, Lefts) ==
    /\ booted = FALSE
    /\ activeStreams = <<>>
    /\ procs = <<>>
    /\ \E left \in Lefts :
        /\ dirs = [id \in Ids |-> IF left /\ id = Leftover THEN LiveDir ELSE NoDir]
        /\ store = IF left /\ Leftover \in TorrentIds
                   THEN <<StateOf(Leftover, 0)>> ELSE <<>>
    /\ engines = <<>>
    /\ torrentEngines = [h \in Hashes |-> 0]
    /\ reqs = <<>>
    /\ restore = [pc |-> "idle", best |-> <<>>, queue |-> <<>>, eng |-> 0]
    /\ now = 0
    /\ backgroundDownloads = <<>>

Init == InitWith(TorrentId("h1", 0), BOOLEAN)

\* ---- app.listen callback: scanExistingHlsStreams ----
ScanEntry(id) ==
    [NoEntry EXCEPT !.id = id, !.obj = "scan_" \o id, !.lastUsed = now]

RECURSIVE scanFrom(_, _)
scanFrom(streams, ids) ==
    IF ids = {} THEN streams
    ELSE LET id == CHOOSE x \in ids : TRUE
         IN scanFrom(IF dirs[id].exists /\ dirs[id].m3u8 # "none"
                        /\ ~Has(streams, id)
                     THEN MapSet(streams, ScanEntry(id)) ELSE streams,
                     ids \ {id})
scanExistingHlsStreams == scanFrom(activeStreams, Ids)

Listen ==
    /\ ~booted
    /\ booted' = TRUE
    /\ activeStreams' = scanExistingHlsStreams
    /\ UNCHANGED <<procs, dirs, store, engines, torrentEngines, reqs, restore, now,
                   backgroundDownloads>>

\* ---- POST /api/local2hls and hls.startLocalHls ----
LocalEntry(sid, pid, r) ==
    [NoEntry EXCEPT !.id = sid, !.obj = ReqObj(r), !.proc = <<pid>>,
                    !.type = "local", !.lastUsed = now]

\* the kill of startLocalHls: only a handle that is not yet marked killed
KillExisting(ps, entry) ==
    IF entry.proc # <<>> /\ ~entry.isArr /\ ~ps[entry.proc[1]].killed
    THEN Kill(ps, {entry.proc[1]}) ELSE ps

\* the validation of /api/local2hls: execSync("ffprobe ...") throws or prints
\* something that is no number (ProbeError), or prints a duration in seconds
ProbeError == -1
MinDuration == 10
ValidDuration == 60
Durations == {ProbeError, 9, 10, ValidDuration}
probeAny(duration) == duration # ProbeError
probeOk(duration) == duration # ProbeError /\ duration >= MinDuration

Local2Hls(f, duration) ==
    LET sid == LocalId(f)
        existing == getStream(sid)
        r == Len(reqs) + 1
        pid == Len(procs) + 1
        rq == [NewReq("local", sid, 0) EXCEPT !.probe = duration]
    IN /\ booted
       /\ IF ~probeOk(duration)
          THEN /\ reqs' = Append(reqs, [rq EXCEPT !.status = 400])
               /\ UNCHANGED <<activeStreams, procs, dirs>>
          ELSE IF existing.obj # NoObj /\ isStreamActive(existing)
          THEN /\ reqs' = Append(reqs, [rq EXCEPT !.status = 200, !.out = sid])
               /\ UNCHANGED <<activeStreams, procs, dirs>>
          ELSE /\ procs' = Append(KillExisting(procs, existing),
                                  NewProc(sid, "local", 0, 0, r))
               /\ dirs' = resetDir(dirs, sid)
               /\ activeStreams' = MapSet(MapDelete(activeStreams, sid),
                                          LocalEntry(sid, pid, r))
               /\ reqs' = Append(reqs, [rq EXCEPT !.pc = "segment", !.spawned = pid])
       /\ UNCHANGED <<booted, store, engines, torrentEngines, restore, now,
                   backgroundDownloads>>

\* a start for a file that passes the validation
LocalStart(f) == Local2Hls(f, ValidDuration)


\* the wait for the first segment ends: the playlist lists a segment, or
\* the polls are used up
SegmentWaitDone(r) ==
    /\ r \in DOMAIN reqs
    /\ reqs[r].pc = "segment"
    /\ reqs' = [reqs EXCEPT ![r].pc = "done", ![r].status = 200,
                            ![r].out = reqs[r].sid]
    /\ UNCHANGED <<booted, activeStreams, procs, dirs, store, engines,
                   torrentEngines, restore, now, backgroundDownloads>>

\* ---- POST /api/local2hls/seek ----
\* a seek that numbers its segments from zero
StartZero(position) == 0
StartSegment(position) == position \div SegmentDuration

\* "Kill current ffmpeg"; SeekKillNone is a seek that leaves it alone
SeekKillNone(ps, stream) == ps
SeekKill(ps, stream) ==
    IF stream.proc # <<>> /\ ~ps[stream.proc[1]].killed
    THEN Kill(ps, {stream.proc[1]}) ELSE ps

SeekEntry(stream, pid, position) ==
    [stream EXCEPT !.proc = <<pid>>, !.seekPosition = position]

Seek(sid, position) ==
    LET stream == getStream(sid)
        r == Len(reqs) + 1
        pid == Len(procs) + 1
    IN /\ booted
       /\ IF stream.obj = NoObj \/ stream.type # "local"
          THEN /\ reqs' = Append(reqs, [NewReq("seek", sid, position) EXCEPT !.status = 404])
               /\ UNCHANGED <<activeStreams, procs, dirs>>
          ELSE /\ procs' = Append(SeekKill(procs, stream),
                                  NewProc(sid, "seek", StartSegment(position), position, r))
               /\ dirs' = resetDir(dirs, sid)
               /\ activeStreams' = MapSet(activeStreams, SeekEntry(stream, pid, position))
               /\ reqs' = Append(reqs, [NewReq("seek", sid, position) EXCEPT
                                           !.pc = "segment", !.spawned = pid])
       /\ UNCHANGED <<booted, store, engines, torrentEngines, restore, now,
                   backgroundDownloads>>

\* ---- POST /api/torrent2mp4 (server.js) and torrent.getEngine ----
TorrentEntry(sid, pid, r, e, i) ==
    [NoEntry EXCEPT !.id = sid, !.obj = ReqObj(r), !.proc = <<pid>>,
                    !.lastUsed = now, !.engine = e, !.fileIndex = i]

\* late: the ready event fired after the engine was destroyed
NewEngine(h, by) == [hash |-> h, state |-> "pending", by |-> by, late |-> FALSE]

\* hls.registerStream(streamId, data)
registerStream(streams, entry) == MapSet(streams, entry)

\* The handler from the resolution of getEngine to its response, for request
\* number r (already in rq) on engine e: the existing-stream check, then
\* resetDir, spawn, registerStream, saveTorrentState.
TorrentBodyNoCheck(r, rq, e, h, i) ==
    LET sid == TorrentId(h, i)
        pid == Len(procs) + 1
    IN  /\ dirs' = resetDir(dirs, sid)
        /\ procs' = Append(procs, NewProc(sid, "torrent", 0, 0, r))
        /\ activeStreams' = registerStream(activeStreams, TorrentEntry(sid, pid, r, e, i))
        /\ store' = saveTorrentState(store, h, h, i, sid)
        /\ reqs' = [rq EXCEPT ![r].pc = "done", ![r].status = 200,
                             ![r].spawned = pid, ![r].out = sid]
TorrentBody(r, rq, e, h, i) ==
    LET sid == TorrentId(h, i)
        existing == getStream(sid)
    IN  IF existing.obj # NoObj /\ isStreamActive(existing)
        THEN /\ activeStreams' = MapSet(activeStreams, [existing EXCEPT !.lastUsed = now])
             /\ reqs' = [rq EXCEPT ![r].pc = "done", ![r].status = 200, ![r].out = sid]
             /\ UNCHANGED <<procs, dirs, store>>
        ELSE TorrentBodyNoCheck(r, rq, e, h, i)

TorrentStart(h, i) ==
    LET r == Len(reqs) + 1
        rq == Append(reqs, [NewReq("torrent", TorrentId(h, i), 0) EXCEPT !.pc = "engine"])
    IN  /\ booted
        /\ IF torrentEngines[h] # 0
           THEN /\ TorrentBody(r, rq, torrentEngines[h], h, i)
                /\ UNCHANGED <<engines, torrentEngines>>
           ELSE /\ engines' = Append(engines, NewEngine(h, ReqObj(r)))
                /\ reqs' = [rq EXCEPT ![r].eng = Len(engines) + 1]
                /\ UNCHANGED <<activeStreams, procs, dirs, store, torrentEngines>>
        /\ UNCHANGED <<booted, restore, now, backgroundDownloads>>

\* engine.on("ready"): the engine is cached under its infoHash and the
\* handler resumes
EngineReady(r) ==
    /\ r \in DOMAIN reqs
    /\ reqs[r].kind = "torrent" /\ reqs[r].pc = "engine"
    /\ LET e == reqs[r].eng
           h == engines[e].hash
       IN /\ engines' = [engines EXCEPT ![e].state = "ready"]
          /\ torrentEngines' = [torrentEngines EXCEPT ![h] = e]
          /\ TorrentBody(r, reqs, e, h, FileOf(reqs[r].sid))
    /\ UNCHANGED <<booted, restore, now, backgroundDownloads>>

\* the timeout of getEngine: engine.destroy(), the promise rejects, 500
EngineTimeout(r) ==
    /\ r \in DOMAIN reqs
    /\ reqs[r].kind = "torrent" /\ reqs[r].pc = "engine"
    /\ engines' = [engines EXCEPT ![reqs[r].eng].state = "destroyed"]
    /\ reqs' = [reqs EXCEPT ![r].pc = "done", ![r].status = 500]
    /\ UNCHANGED <<booted, activeStreams, procs, dirs, store, torrentEngines, restore, now,
                   backgroundDownloads>>

\* engine.on("ready") of an engine that the timeout has destroyed: the
\* timeout leaves the listener attached, so the engine is cached under its
\* infoHash; resolve(engine) has no effect on the rejected promise
EngineLateReady(e) ==
    /\ e \in DOMAIN engines
    /\ engines[e].state = "destroyed"
    /\ ~engines[e].late
    /\ engines' = [engines EXCEPT ![e].late = TRUE]
    /\ torrentEngines' = [torrentEngines EXCEPT ![engines[e].hash] = e]
    /\ UNCHANGED <<booted, activeStreams, procs, dirs, store, reqs, restore, now,
                   backgroundDownloads>>

\* ---- setInterval(() => hls.cleanupOldStreams(), 60 * 1000) ----
Reaper ==
    /\ booted
    /\ \E i \in DOMAIN activeStreams : now - activeStreams[i].lastUsed > IdleMinutes
    /\ activeStreams' = cleanupOldStreams.streams
    /\ procs' = cleanupOldStreams.procs
    /\ UNCHANGED <<booted, dirs, store, engines, torrentEngines, reqs, restore, now,
                   backgroundDownloads>>

\* ---- the environment: ffmpeg and the clock ----
\* ffmpeg closes a segment file and rewrites the playlist; a signalled
\* ffmpeg does so once more and exits
WriteSegment(d, pid) ==
    LET n == procs[pid].next
        id == procs[pid].dir
    IN [d EXCEPT ![id] = [exists |-> TRUE, m3u8 |-> "live",
                          segs |-> {s \in d[id].segs : s.n # n} \cup {[n |-> n, by |-> pid]}]]

ProcWrite(pid) ==
    /\ pid \in DOMAIN procs
    /\ Alive(procs[pid])
    /\ procs[pid].role # "ytdlp"
    /\ procs[pid].killed \/ procs[pid].next - procs[pid].startNumber < MaxSeg
    /\ dirs' = WriteSegment(dirs, pid)
    /\ procs' = IF procs[pid].killed
                THEN [procs EXCEPT ![pid].exitCode = 1,
                                   ![pid].next = procs[pid].startNumber]
                ELSE [procs EXCEPT ![pid].next = @ + 1]
    /\ UNCHANGED <<booted, activeStreams, store, engines, torrentEngines, reqs, restore, now,
                   backgroundDownloads>>

\* ---- the input pipe of a transcoder ----
\* fileStream.on("data"): the handlers of server.js and of restartDeadStream
\* write the chunk and ignore what write() returns; the handler of
\* /api/torrent2mp4 in server-old.js pauses the source when write() returns
\* false.  write() returns false once the buffered chunks reach the high
\* water mark of stdin.
PipedRoles == {"torrent", "torrentOld", "restart"}
pausesOnFull(role) == role = "torrentOld"

SourceData(pid) ==
    /\ pid \in DOMAIN procs
    /\ Alive(procs[pid])
    /\ procs[pid].role \in PipedRoles
    /\ ~procs[pid].pipe.paused
    /\ procs[pid].pipe.read < MaxChunks
    /\ LET pipe == procs[pid].pipe
           canContinue == pipe.buffered + 1 < HighWaterMark
       IN procs' = [procs EXCEPT ![pid].pipe =
                        [read |-> pipe.read + 1,
                         buffered |-> pipe.buffered + 1,
                         needDrain |-> pipe.needDrain \/ ~canContinue,
                         paused |-> pausesOnFull(procs[pid].role) /\ ~canContinue]]
    /\ UNCHANGED <<booted, activeStreams, dirs, store, engines, torrentEngines, reqs,
                   restore, now, backgroundDownloads>>

\* the transcoder takes a chunk from its stdin; when the buffer empties after
\* a write that returned false, stdin emits "drain" and the drain handler of
\* server-old.js resumes the source
StdinRead(pid) ==
    /\ pid \in DOMAIN procs
    /\ Alive(procs[pid])
    /\ procs[pid].pipe.buffered > 0
    /\ LET pipe == procs[pid].pipe
           drain == pipe.needDrain /\ pipe.buffered = 1
       IN procs' = [procs EXCEPT ![pid].pipe =
                        [pipe EXCEPT !.buffered = @ - 1,
                                     !.needDrain = pipe.needDrain /\ ~drain,
                                     !.paused = pipe.paused /\ ~drain]]
    /\ UNCHANGED <<booted, activeStreams, dirs, store, engines, torrentEngines, reqs,
                   restore, now, backgroundDownloads>>

\* a close handler that drops the job of a transcoder that failed
onCloseFailed(streams, id, code) ==
    IF code # 0 THEN MapDelete(streams, id)
    ELSE IF Has(streams, id)
    THEN MapSet(streams, [Get(streams, id) EXCEPT !.finished = TRUE])
    ELSE streams

\* the registry after ffmpeg.on("close") of startLocalHls, whatever the code
onClose(streams, id, code) ==
    IF Has(streams, id)
    THEN MapSet(streams, [Get(streams, id) EXCEPT !.finished = TRUE])
    ELSE streams

\* ffmpeg.on("close") of startLocalHls marks the registered entry finished.
\* A clean exit leaves a finished playlist behind where ffmpeg runs without
\* omit_endlist (local jobs) and where the end handler of the torrent read
\* stream appends the end marker (server-old.js).  A signalled process exits
\* with a non-zero code.  An exited process has no write position.
ProcExit(pid, code) ==
    /\ pid \in DOMAIN procs
    /\ Alive(procs[pid])
    /\ procs[pid].killed => code = 1
    /\ procs' = [procs EXCEPT ![pid].exitCode = code,
                               ![pid].next = procs[pid].startNumber,
                               ![pid].pipe = NoPipe]
    /\ LET id == procs[pid].dir
       IN /\ dirs' = IF code = 0 /\ procs[pid].role \in {"local", "seek", "seekOld", "torrentOld"}
                        /\ dirs[id].m3u8 = "live"
                     THEN [dirs EXCEPT ![id].m3u8 = "end"] ELSE dirs
          /\ activeStreams' = IF procs[pid].role \in {"local", "seekOld"}
                              THEN onClose(activeStreams, id, code)
                              ELSE activeStreams
    /\ UNCHANGED <<booted, store, engines, torrentEngines, reqs, restore, now,
                   backgroundDownloads>>

Tick(d) ==
    /\ now + d <= MaxTime
    /\ now' = now + d
    /\ UNCHANGED <<booted, activeStreams, procs, dirs, store, engines,
                   torrentEngines, reqs, restore, backgroundDownloads>>

Next ==
    \/ Listen
    \/ \E f \in LocalFiles : Len(reqs) < MaxReqs /\ LocalStart(f)
    \/ \E r \in 1..MaxReqs : SegmentWaitDone(r)
    \/ \E sid \in LocalIds, pos \in SeekPositions : Len(reqs) < MaxReqs /\ Seek(sid, pos)
    \/ \E h \in OneTorrent, i \in Episodes : Len(reqs) < MaxReqs /\ TorrentStart(h, i)
    \/ \E r \in 1..MaxReqs : EngineReady(r)
    \/ \E r \in 1..MaxReqs : EngineTimeout(r)
    \/ Reaper
    \/ \E pid \in DOMAIN procs : ProcWrite(pid)
    \/ \E pid \in DOMAIN procs, code \in {0, 1} : ProcExit(pid, code)
    \/ \E d \in TickSteps : Tick(d)

Spec == Init /\ [][Next]_vars

\* server.js restricted to the handlers of its local-file jobs and the
\* deaths of their transcoders, with one more request than Spec.  These
\* handlers read the registry and the process handles, never the files, so
\* the segment writes are left to Spec.
InitLocal == InitWith(LocalId("f1"), {TRUE})

NextLocal ==
    \/ Listen
    \/ \E f \in LocalFiles : Len(reqs) < MaxLocalReqs /\ LocalStart(f)
    \/ \E r \in 1..MaxLocalReqs : SegmentWaitDone(r)
    \/ \E sid \in LocalIds, pos \in SeekPositions : Len(reqs) < MaxLocalReqs /\ Seek(sid, pos)
    \/ \E pid \in DOMAIN procs, code \in {0, 1} : ProcExit(pid, code)

SpecLocal == InitLocal /\ [][NextLocal]_vars

\* the local-file jobs of server.js with the segment writes of their
\* transcoders
NextSeek ==
    \/ Listen
    \/ \E f \in LocalFiles : Len(reqs) < MaxLocalReqs /\ LocalStart(f)
    \/ \E r \in 1..MaxLocalReqs : SegmentWaitDone(r)
    \/ \E sid \in LocalIds, pos \in SeekPositions : Len(reqs) < MaxLocalReqs /\ Seek(sid, pos)
    \/ \E pid \in DOMAIN procs : ProcWrite(pid)
    \/ \E pid \in DOMAIN procs, code \in {0, 1} : ProcExit(pid, code)

SpecSeek == InitLocal /\ [][NextSeek]_vars

\* the same handlers with one request less, which leaves room for longer
\* runs of a transcoder
NextExit ==
    \/ Listen
    \/ \E f \in LocalFiles : Len(reqs) < MaxExitReqs /\ LocalStart(f)
    \/ \E r \in 1..MaxExitReqs : SegmentWaitDone(r)
    \/ \E sid \in LocalIds, pos \in SeekPositions : Len(reqs) < MaxExitReqs /\ Seek(sid, pos)
    \/ \E pid \in DOMAIN procs : ProcWrite(pid)
    \/ \E pid \in DOMAIN procs, code \in {0, 1} : ProcExit(pid, code)

SpecExit == InitLocal /\ [][NextExit]_vars

\* removeStream and cleanupOldStreams over registries drawn from every shape
\* of entry: no process handle, one handle, a list of handles with an empty
\* slot; over processes that run, were signalled or have exited; over output
\* directories that exist or not; and over entries that are idle, at the
\* threshold or fresh
SweepIds == <<TorrentId("h1", 0), LocalId("f1"), TorrentId("h1", 1), TorrentId("h2", 0)>>

SweepProc(i, state) ==
    [NewProc(SweepIds[i], IF SweepIds[i] \in LocalIds THEN "local" ELSE "torrent",
             0, 0, 0) EXCEPT
        !.killed = (state = "killed"),
        !.exitCode = IF state = "done" THEN 0 ELSE IF state = "failed" THEN 1 ELSE -1]

SweepEntry(i, handle, used) ==
    [NoEntry EXCEPT !.id = SweepIds[i], !.obj = "scan_" \o SweepIds[i],
                    !.proc = IF handle = "none" THEN <<>>
                             ELSE IF handle = "one" THEN <<i>> ELSE <<i, 0>>,
                    !.isArr = (handle = "list"),
                    !.type = IF SweepIds[i] \in LocalIds THEN "local" ELSE "",
                    !.lastUsed = used]

InitSweep ==
    /\ booted = TRUE
    /\ \E n \in 1..MaxSweep :
        \E handle \in [1..n -> {"none", "one", "list"}],
           state \in [1..n -> {"running", "killed", "done", "failed"}],
           used \in [1..n -> {0, 1, IdleMinutes + 1}],
           there \in [1..n -> BOOLEAN] :
            \* startLocalHls registers one handle; an entry without a handle
            \* comes from the scan and owns no process
            /\ \A i \in 1..n : SweepIds[i] \in LocalIds => handle[i] # "list"
            /\ \A i \in 1..n : handle[i] = "none" => state[i] = "done"
            /\ activeStreams = [i \in 1..n |-> SweepEntry(i, handle[i], used[i])]
            /\ procs = [i \in 1..n |-> SweepProc(i, state[i])]
            /\ dirs = [id \in Ids |->
                          IF \E i \in 1..n : SweepIds[i] = id /\ there[i]
                          THEN LiveDir ELSE NoDir]
    /\ store = <<>>
    /\ engines = <<>>
    /\ torrentEngines = [h \in Hashes |-> 0]
    /\ reqs = <<>>
    /\ restore = [pc |-> "idle", best |-> <<>>, queue |-> <<>>, eng |-> 0]
    /\ now = IdleMinutes + 1
    /\ backgroundDownloads = <<>>

NextSweep ==
    \/ Reaper
    \/ \E pid \in DOMAIN procs, code \in {0, 1} : ProcExit(pid, code)

SpecSweep == InitSweep /\ [][NextSweep]_vars

\* the torrent starts of server.js with the timeout of getEngine and a ready
\* event that comes after it
NextTimeout ==
    \/ Listen
    \/ \E h \in OneTorrent, i \in Episodes : Len(reqs) < MaxTimeoutReqs /\ TorrentStart(h, i)
    \/ \E r \in 1..MaxTimeoutReqs : EngineReady(r)
    \/ \E r \in 1..MaxTimeoutReqs : EngineTimeout(r)
    \/ \E e \in DOMAIN engines : EngineLateReady(e)
    \/ \E pid \in DOMAIN procs, code \in {0, 1} : ProcExit(pid, code)

SpecTimeout == Init /\ [][NextTimeout]_vars

\* the local-file starts of server.js over every outcome of the validation
NextProbe ==
    \/ Listen
    \/ \E f \in LocalFiles, d \in Durations : Len(reqs) < MaxProbeReqs /\ Local2Hls(f, d)
    \/ \E r \in 1..MaxProbeReqs : SegmentWaitDone(r)
    \/ \E pid \in DOMAIN procs : ProcWrite(pid)
    \/ \E pid \in DOMAIN procs, code \in {0, 1} : ProcExit(pid, code)

SpecProbe == InitLocal /\ [][NextProbe]_vars

\* the torrent jobs of server.js with the pipes that feed their transcoders
NextPipe ==
    \/ Listen
    \/ \E h \in OneTorrent, i \in Episodes : Len(reqs) < MaxPipeReqs /\ TorrentStart(h, i)
    \/ \E r \in 1..MaxPipeReqs : EngineReady(r)
    \/ \E pid \in DOMAIN procs : SourceData(pid)
    \/ \E pid \in DOMAIN procs : StdinRead(pid)
    \/ \E pid \in DOMAIN procs, code \in {0, 1} : ProcExit(pid, code)

SpecPipe == Init /\ [][NextPipe]_vars

----------------------------------------------------------------------------
\* server-old.js

\* subprocess.kill("SIGKILL"): the process is gone at once, without a flush
Kill9(ps, pids) ==
    [i \in DOMAIN ps |->
        IF i \in pids /\ ps[i].exitCode = -1
        THEN [ps[i] EXCEPT !.killed = TRUE, !.exitCode = 1,
                           !.next = ps[i].startNumber]
        ELSE ps[i]]

\* ---- restoreTorrentStreams ----
\* byInfoHash: per infoHash the state with the greatest savedAt, the first
\* one on a tie; in the order in which the hashes first appear
\* KeepOldest is the comparison turned round
KeepOldest(existing, state) == state.savedAt < existing.savedAt
KeepNewest(existing, state) == state.savedAt > existing.savedAt

RECURSIVE byInfoHash(_, _)
byInfoHash(best, states) ==
    IF states = <<>> THEN best
    ELSE LET state == Head(states)
             at == {i \in DOMAIN best : best[i].infoHash = state.infoHash}
         IN byInfoHash(
                IF at = {} THEN Append(best, state)
                ELSE IF KeepNewest(best[CHOOSE i \in at : TRUE], state)
                     THEN [i \in DOMAIN best |-> IF i \in at THEN state ELSE best[i]]
                     ELSE best,
                Tail(states))

\* "Remove old states for same torrent"
RemoveOlder(st, best) ==
    SelectSeq(st, LAMBDA state :
        \A i \in DOMAIN best :
            best[i].infoHash = state.infoHash => best[i].id = state.id)

\* the loop over byInfoHash.values() up to the first state that needs an
\* engine: a state without directory or playlist is removed from the store,
\* a state with a finished playlist is skipped
RECURSIVE restoreSkip(_, _)
restoreSkip(st, queue) ==
    IF queue = <<>> THEN [store |-> st, queue |-> queue]
    ELSE LET id == Head(queue).id
         IN IF ~dirs[id].exists \/ dirs[id].m3u8 = "none"
            THEN restoreSkip(removeTorrentState(st, id), Tail(queue))
            ELSE IF dirs[id].m3u8 = "end"
                 THEN restoreSkip(st, Tail(queue))
                 ELSE [store |-> st, queue |-> queue]

\* restoreTorrentStreams from the head of queue to its next await, where
\* engs is the engine table so far
RestoreFrom(best, st, queue, engs) ==
    LET nxt == restoreSkip(st, queue)
    IN  /\ store' = nxt.store
        /\ IF nxt.queue = <<>>
           THEN /\ restore' = [pc |-> "done", best |-> best, queue |-> <<>>, eng |-> 0]
                /\ engines' = engs
           ELSE /\ restore' = [pc |-> "wait", best |-> best, queue |-> nxt.queue,
                               eng |-> Len(engs) + 1]
                /\ engines' = Append(engs, NewEngine(Head(nxt.queue).infoHash, "restore"))

\* app.listen callback: scanExistingHlsStreams(); await restoreTorrentStreams()
ListenOld ==
    /\ ~booted
    /\ booted' = TRUE
    /\ activeStreams' = scanExistingHlsStreams
    /\ LET best == byInfoHash(<<>>, store)
       IN RestoreFrom(best, RemoveOlder(store, best), best, engines)
    /\ UNCHANGED <<procs, dirs, torrentEngines, reqs, now, backgroundDownloads>>

\* ffmpeg with append_list continues after the segments it finds
AppendStart(id) == Cardinality(dirs[id].segs)

RestoredEntry(state, pid, e) ==
    [NoEntry EXCEPT !.id = state.id, !.obj = "restore_" \o state.id,
                    !.proc = <<pid>>, !.lastUsed = now, !.engine = e,
                    !.fileIndex = state.fileIndex]

\* e.on("ready") of the restore: spawn ffmpeg on the directory as it is and
\* set a new registry entry, then go on with the next state
RestoreReady ==
    /\ restore.pc = "wait"
    /\ LET state == Head(restore.queue)
           e == restore.eng
           pid == Len(procs) + 1
       IN /\ torrentEngines' = [torrentEngines EXCEPT ![engines[e].hash] = e]
          /\ procs' = Append(procs, NewProc(state.id, "restore", AppendStart(state.id), 0, 0))
          /\ activeStreams' = MapSet(activeStreams, RestoredEntry(state, pid, e))
          /\ RestoreFrom(restore.best, store, Tail(restore.queue),
                         [engines EXCEPT ![e].state = "ready"])
    /\ UNCHANGED <<booted, dirs, reqs, now, backgroundDownloads>>

\* "Torrent restore timeout" or the engine's error event: the state stays
\* in the store
RestoreFail ==
    /\ restore.pc = "wait"
    /\ RestoreFrom(restore.best, store, Tail(restore.queue),
                   [engines EXCEPT ![restore.eng].state = "destroyed"])
    /\ UNCHANGED <<booted, activeStreams, procs, dirs, torrentEngines, reqs, now,
                   backgroundDownloads>>

\* ---- POST /api/torrent2mp4 (server-old.js) ----
\* "Stop any OTHER streams from this same torrent (episode switching)"
RECURSIVE stopOtherEpisodes(_, _, _, _)
stopOtherEpisodes(st, todo, h, sid) ==
    IF todo = <<>> THEN st
    ELSE LET e == Head(todo)
         IN stopOtherEpisodes(
                IF e.id \in {TorrentId(h, j) : j \in FileIndexes} \ {sid}
                THEN [streams |-> MapDelete(st.streams, e.id),
                      procs |-> Kill9(st.procs, Range(e.proc)),
                      store |-> removeTorrentState(st.store, e.id)]
                ELSE st,
                Tail(todo), h, sid)

\* the handler from the engine to its response, for request r on engine e
TorrentBodyOld(r, rq, e, h, i) ==
    LET sid == TorrentId(h, i)
        st == stopOtherEpisodes([streams |-> activeStreams, procs |-> procs,
                                 store |-> store], activeStreams, h, sid)
        existing == IF Has(st.streams, sid) THEN Get(st.streams, sid) ELSE NoEntry
        pid == Len(procs) + 1
    IN  IF existing.obj # NoObj /\ isStreamActive(existing)
        THEN /\ activeStreams' = MapSet(st.streams, [existing EXCEPT !.lastUsed = now])
             /\ procs' = st.procs
             /\ store' = st.store
             /\ reqs' = [rq EXCEPT ![r].pc = "done", ![r].status = 200, ![r].out = sid]
             /\ UNCHANGED dirs
        ELSE /\ dirs' = resetDir(dirs, sid)
             /\ procs' = Append(st.procs, NewProc(sid, "torrentOld", 0, 0, r))
             /\ activeStreams' = MapSet(MapDelete(st.streams, sid),
                                        TorrentEntry(sid, pid, r, e, i))
             /\ store' = saveTorrentState(st.store, h, h, i, sid)
             /\ reqs' = [rq EXCEPT ![r].pc = "done", ![r].status = 200,
                                  ![r].spawned = pid, ![r].out = sid]

\* engine.files[fileIndex] is undefined: engine.destroy(), throw, 500
InvalidIndex(r, rq, e) ==
    /\ engines' = [engines EXCEPT ![e].state = "destroyed"]
    /\ reqs' = [rq EXCEPT ![r].pc = "done", ![r].status = 500]
    /\ UNCHANGED <<activeStreams, procs, dirs, store>>

TorrentStartOld(h, i) ==
    LET r == Len(reqs) + 1
        rq == Append(reqs, [NewReq("torrent", TorrentId(h, i), 0) EXCEPT !.pc = "engine"])
    IN  /\ booted
        /\ IF torrentEngines[h] # 0 /\ i = BadIndex
           THEN /\ InvalidIndex(r, rq, torrentEngines[h])
                /\ UNCHANGED torrentEngines
           ELSE IF torrentEngines[h] # 0
           THEN /\ TorrentBodyOld(r, rq, torrentEngines[h], h, i)
                /\ UNCHANGED <<engines, torrentEngines>>
           ELSE /\ engines' = Append(engines, NewEngine(h, ReqObj(r)))
                /\ reqs' = [rq EXCEPT ![r].eng = Len(engines) + 1]
                /\ UNCHANGED <<activeStreams, procs, dirs, store, torrentEngines>>
        /\ UNCHANGED <<booted, restore, now, backgroundDownloads>>

\* e.on("ready"): torrentEngines.set(e.infoHash, e), the handler resumes
EngineReadyOld(r) ==
    /\ r \in DOMAIN reqs
    /\ reqs[r].kind = "torrent" /\ reqs[r].pc = "engine"
    /\ LET e == reqs[r].eng
       IN IF FileOf(reqs[r].sid) = BadIndex
          THEN /\ torrentEngines' = [torrentEngines EXCEPT ![engines[e].hash] = e]
               /\ InvalidIndex(r, reqs, e)
          ELSE /\ engines' = [engines EXCEPT ![e].state = "ready"]
               /\ torrentEngines' = [torrentEngines EXCEPT ![engines[e].hash] = e]
               /\ TorrentBodyOld(r, reqs, e, engines[e].hash, FileOf(reqs[r].sid))
    /\ UNCHANGED <<booted, restore, now, backgroundDownloads>>

\* ---- POST /api/url2hls ----
UrlEntry(sid, py, pf, r) ==
    [NoEntry EXCEPT !.id = sid, !.obj = ReqObj(r), !.proc = <<py, pf>>,
                    !.isArr = TRUE, !.lastUsed = now]

\* from the arrival of the request to await extractWithYtdlp(inputUrl)
UrlStart(u) ==
    LET sid == UrlId(u)
        existing == getStream(sid)
    IN /\ booted
       /\ IF existing.obj # NoObj /\ isStreamActive(existing)
          THEN /\ activeStreams' = MapSet(activeStreams, [existing EXCEPT !.lastUsed = now])
               /\ reqs' = Append(reqs, [NewReq("url", sid, 0) EXCEPT
                                           !.status = 200, !.out = sid])
          ELSE /\ activeStreams' = MapDelete(activeStreams, sid)
               /\ reqs' = Append(reqs, [NewReq("url", sid, 0) EXCEPT !.pc = "extract"])
       /\ UNCHANGED <<booted, procs, dirs, store, engines, torrentEngines, restore, now,
                   backgroundDownloads>>

\* yt-dlp returned the formats: resetDir, spawn yt-dlp | ffmpeg, register
ExtractDone(r) ==
    /\ r \in DOMAIN reqs
    /\ reqs[r].kind = "url" /\ reqs[r].pc = "extract"
    /\ LET sid == reqs[r].sid
           py == Len(procs) + 1
           pf == Len(procs) + 2
       IN /\ dirs' = resetDir(dirs, sid)
          /\ procs' = procs \o <<NewProc(sid, "ytdlp", 0, 0, r), NewProc(sid, "url", 0, 0, r)>>
          /\ activeStreams' = MapSet(activeStreams, UrlEntry(sid, py, pf, r))
          /\ reqs' = [reqs EXCEPT ![r].pc = "done", ![r].status = 200,
                                  ![r].spawned = pf, ![r].out = sid]
    /\ UNCHANGED <<booted, store, engines, torrentEngines, restore, now,
                   backgroundDownloads>>

\* yt-dlp cannot extract: the original URL is returned for direct playback
ExtractFail(r) ==
    /\ r \in DOMAIN reqs
    /\ reqs[r].kind = "url" /\ reqs[r].pc = "extract"
    /\ reqs' = [reqs EXCEPT ![r].pc = "done", ![r].status = 200]
    /\ UNCHANGED <<booted, activeStreams, procs, dirs, store, engines,
                   torrentEngines, restore, now, backgroundDownloads>>

\* ---- GET /hls/:id.m3u8, isStreamDead, restartDeadStream ----
isStreamDead(entry) ==
    IF entry.proc # <<>> /\ (entry.isArr \/ ~procs[entry.proc[1]].killed) THEN FALSE
    ELSE IF dirs[entry.id].m3u8 = "none" THEN TRUE
    ELSE dirs[entry.id].m3u8 # "end"

\* the writes of restartDeadStream go to the entry object the handler
\* holds, which is in the registry only while no one has replaced it
RestartWrite(streams, sid, obj, pid, e) ==
    IF Has(streams, sid) /\ Get(streams, sid).obj = obj
    THEN MapSet(streams, [Get(streams, sid) EXCEPT
                             !.proc = <<pid>>, !.isArr = FALSE,
                             !.engine = e, !.lastUsed = now])
    ELSE streams

ManifestOld(sid) ==
    LET entry == [getStream(sid) EXCEPT !.lastUsed = now]
        used == MapSet(activeStreams, entry)
        r == Len(reqs) + 1
        pid == Len(procs) + 1
        rq == [NewReq("manifest", sid, 0) EXCEPT !.obj = entry.obj]
    IN /\ booted
       /\ IF ~Has(activeStreams, sid)
          THEN /\ reqs' = Append(reqs, [rq EXCEPT !.status = 404])
               /\ UNCHANGED <<activeStreams, procs, engines>>
          ELSE IF ~isStreamDead(entry) \/ ~Has(store, sid)
          THEN /\ activeStreams' = used
               /\ reqs' = Append(reqs, [rq EXCEPT !.pc = "playlist"])
               /\ UNCHANGED <<procs, engines>>
          ELSE IF torrentEngines[Get(store, sid).infoHash] # 0
          THEN /\ procs' = Append(procs, NewProc(sid, "restart", AppendStart(sid), 0, r))
               /\ activeStreams' = RestartWrite(used, sid, entry.obj, pid,
                                                torrentEngines[Get(store, sid).infoHash])
               /\ reqs' = Append(reqs, [rq EXCEPT !.pc = "playlist", !.spawned = pid])
               /\ UNCHANGED engines
          ELSE /\ activeStreams' = used
               /\ engines' = Append(engines, NewEngine(Get(store, sid).infoHash, ReqObj(r)))
               /\ reqs' = Append(reqs, [rq EXCEPT !.pc = "restart",
                                                  !.eng = Len(engines) + 1])
               /\ UNCHANGED procs
       /\ UNCHANGED <<booted, dirs, store, torrentEngines, restore, now,
                   backgroundDownloads>>

\* e.on("ready") of restartDeadStream
RestartReady(r) ==
    /\ r \in DOMAIN reqs
    /\ reqs[r].pc = "restart"
    /\ LET e == reqs[r].eng
           sid == reqs[r].sid
           pid == Len(procs) + 1
       IN /\ engines' = [engines EXCEPT ![e].state = "ready"]
          /\ torrentEngines' = [torrentEngines EXCEPT ![engines[e].hash] = e]
          /\ procs' = Append(procs, NewProc(sid, "restart", AppendStart(sid), 0, r))
          /\ activeStreams' = RestartWrite(activeStreams, sid, reqs[r].obj, pid, e)
          /\ reqs' = [reqs EXCEPT ![r].pc = "playlist", ![r].spawned = pid]
    /\ UNCHANGED <<booted, dirs, store, restore, now, backgroundDownloads>>

\* "Torrent restart timeout": restartDeadStream returns false
RestartFail(r) ==
    /\ r \in DOMAIN reqs
    /\ reqs[r].pc = "restart"
    /\ engines' = [engines EXCEPT ![reqs[r].eng].state = "destroyed"]
    /\ reqs' = [reqs EXCEPT ![r].pc = "playlist"]
    /\ UNCHANGED <<booted, activeStreams, procs, dirs, store, torrentEngines, restore, now,
                   backgroundDownloads>>

\* the wait for the playlist file ends: 200 with the file, or 503
ManifestRespond(r) ==
    /\ r \in DOMAIN reqs
    /\ reqs[r].pc = "playlist"
    /\ reqs' = [reqs EXCEPT ![r].pc = "done",
                            ![r].status = IF dirs[reqs[r].sid].m3u8 # "none"
                                          THEN 200 ELSE 503]
    /\ UNCHANGED <<booted, activeStreams, procs, dirs, store, engines,
                   torrentEngines, restore, now, backgroundDownloads>>

\* ---- the reaper of server-old.js ----
RECURSIVE reapFrom(_, _)
reapFrom(st, todo) ==
    IF todo = <<>> THEN st
    ELSE LET e == Head(todo)
         IN reapFrom(
                IF now - e.lastUsed > IdleMinutes
                THEN [streams |-> MapDelete(st.streams, e.id),
                      procs |-> Kill(st.procs, Range(e.proc)),
                      store |-> removeTorrentState(st.store, e.id)]
                ELSE st,
                Tail(todo))

ReaperOld ==
    /\ booted
    /\ \E i \in DOMAIN activeStreams : now - activeStreams[i].lastUsed > IdleMinutes
    /\ LET st == reapFrom([streams |-> activeStreams, procs |-> procs,
                           store |-> store], activeStreams)
       IN /\ activeStreams' = st.streams
          /\ procs' = st.procs
          /\ store' = st.store
    /\ UNCHANGED <<booted, dirs, engines, torrentEngines, reqs, restore, now,
                   backgroundDownloads>>

MaxOldReqs == 2

NextOld ==
    \/ ListenOld
    \/ RestoreReady
    \/ RestoreFail
    \/ \E h \in OneTorrent, i \in Episodes : Len(reqs) < MaxOldReqs /\ TorrentStartOld(h, i)
    \/ \E r \in 1..MaxOldReqs : EngineReadyOld(r)
    \/ \E r \in 1..MaxOldReqs : EngineTimeout(r)
    \/ \E u \in Urls : Len(reqs) < MaxOldReqs /\ UrlStart(u)
    \/ \E r \in 1..MaxOldReqs : ExtractDone(r)
    \/ \E r \in 1..MaxOldReqs : ExtractFail(r)
    \/ \E sid \in EpisodeIds : Len(reqs) < MaxOldReqs /\ ManifestOld(sid)
    \/ \E r \in 1..MaxOldReqs : RestartReady(r)
    \/ \E r \in 1..MaxOldReqs : RestartFail(r)
    \/ \E r \in 1..MaxOldReqs : ManifestRespond(r)
    \/ ReaperOld
    \/ \E pid \in DOMAIN procs : ProcWrite(pid)
    \/ \E pid \in DOMAIN procs, code \in {0, 1} : ProcExit(pid, code)
    \/ \E d \in TickSteps : Tick(d)

SpecOld == Init /\ [][NextOld]_vars

\* the torrent starts of server-old.js over valid and invalid file indexes
NextBadStart ==
    \/ ListenOld
    \/ RestoreReady
    \/ RestoreFail
    \/ \E h \in OneTorrent, i \in {0, BadIndex} :
           Len(reqs) < MaxBadReqs /\ TorrentStartOld(h, i)
    \/ \E r \in 1..MaxBadReqs : EngineReadyOld(r)
    \/ \E r \in 1..MaxBadReqs : EngineTimeout(r)
    \/ \E pid \in DOMAIN procs : ProcWrite(pid)

SpecBadStart == Init /\ [][NextBadStart]_vars

\* ---- POST /api/local2hls/seek (server-old.js) ----
\* there: the original file of the job still exists.  The handler signals
\* the current transcoder before it looks for the file.
SeekOld(sid, position, there) ==
    LET stream == getStream(sid)
        r == Len(reqs) + 1
        pid == Len(procs) + 1
        rq == NewReq("seek", sid, position)
    IN /\ booted
       /\ IF stream.obj = NoObj \/ stream.type # "local"
          THEN /\ reqs' = Append(reqs, [rq EXCEPT !.status = 404])
               /\ UNCHANGED <<activeStreams, procs, dirs>>
          ELSE IF ~there
          THEN /\ procs' = SeekKill(procs, stream)
               /\ reqs' = Append(reqs, [rq EXCEPT !.status = 404])
               /\ UNCHANGED <<activeStreams, dirs>>
          ELSE /\ procs' = Append(SeekKill(procs, stream),
                                  NewProc(sid, "seekOld", StartSegment(position),
                                          position, r))
               /\ dirs' = resetDir(dirs, sid)
               /\ activeStreams' = MapSet(activeStreams, SeekEntry(stream, pid, position))
               /\ reqs' = Append(reqs, [rq EXCEPT !.pc = "segment", !.spawned = pid])
       /\ UNCHANGED <<booted, store, engines, torrentEngines, restore, now,
                   backgroundDownloads>>

\* the seek of server-old.js over registries drawn as for the sweep
NextSeekOld ==
    \/ \E sid \in {LocalId("f1"), TorrentId("h1", 0)}, pos \in SeekPositions,
          there \in BOOLEAN :
           Len(reqs) < MaxSeekOldReqs /\ SeekOld(sid, pos, there)
    \/ \E r \in 1..MaxSeekOldReqs : SegmentWaitDone(r)
    \/ \E pid \in DOMAIN procs : ProcWrite(pid)
    \/ \E pid \in DOMAIN procs, code \in {0, 1} : ProcExit(pid, code)

SpecSeekOld == InitSweep /\ [][NextSeekOld]_vars

\* ---- the startup of server-old.js over what earlier runs can leave ----
SavedAts == {-2, -1}
LeftDirs == {NoDir, LiveDir, EndedDir}
LeftStores ==
    {<<>>}
    \cup {<<StateOf(a, t)>> : a \in EpisodeIds, t \in SavedAts}
    \cup UNION {{<<StateOf(a, t), StateOf(b, u)>> :
                    b \in EpisodeIds \ {a}, t \in SavedAts, u \in SavedAts} :
                 a \in EpisodeIds}

InitRecover ==
    /\ booted = FALSE
    /\ activeStreams = <<>>
    /\ procs = <<>>
    /\ dirs \in [Ids -> LeftDirs]
    /\ \A id \in Ids \ EpisodeIds : dirs[id] = NoDir
    /\ store \in LeftStores
    /\ engines = <<>>
    /\ torrentEngines = [h \in Hashes |-> 0]
    /\ reqs = <<>>
    /\ restore = [pc |-> "idle", best |-> <<>>, queue |-> <<>>, eng |-> 0]
    /\ now = 0
    /\ backgroundDownloads = <<>>

NextRecover ==
    \/ ListenOld
    \/ RestoreReady
    \/ RestoreFail
    \/ \E pid \in DOMAIN procs : ProcWrite(pid)
    \/ \E pid \in DOMAIN procs, code \in {0, 1} : ProcExit(pid, code)

SpecRecover == InitRecover /\ [][NextRecover]_vars

----------------------------------------------------------------------------
\* Properties of the local-file jobs (SpecLocal).

\* requests that spawned a transcoder for job sid
Spawners(sid) == {r \in DOMAIN reqs : reqs[r].sid = sid /\ reqs[r].spawned # 0}
ProcsOf(sid) == {p \in DOMAIN procs : procs[p].dir = sid}

\* r2 is a finished seek of job sid that arrived while an earlier seek or
\* start of the same job was still waiting for its first segment, and no
\* later request restarted the job
SeekOverlap(r2) ==
    /\ reqs[r2].kind = "seek" /\ reqs[r2].spawned # 0 /\ reqs[r2].pc = "done"
    /\ \E r1 \in reqs[r2].conc :
          /\ reqs[r1].sid = reqs[r2].sid
          /\ reqs[r1].spawned # 0
          /\ reqs[r1].pc = "done"
    /\ \A r3 \in Spawners(reqs[r2].sid) : r3 <= r2
    /\ Has(activeStreams, reqs[r2].sid)

\* C6: when two seeks of one job overlap and both have finished, the job's
\* recorded position is that of the seek that arrived last, the transcoder
\* attached to the job is the one that seek spawned, it is not killed, and no
\* other transcoder of the job is still running.
C6_LastSeekWins ==
    \A r2 \in DOMAIN reqs :
        SeekOverlap(r2) =>
            LET sid == reqs[r2].sid
                e == Get(activeStreams, sid)
                p == reqs[r2].spawned
            IN /\ e.seekPosition = reqs[r2].pos
               /\ e.proc = <<p>>
               /\ procs[p].seek = reqs[r2].pos
               /\ procs[p].startNumber = reqs[r2].pos \div SegmentDuration
               /\ ~procs[p].killed
               /\ \A q \in ProcsOf(sid) \ {p} : ~Running(procs[q])

\* two overlapping seeks to different positions have both finished
C6_Witness ==
    \E r2 \in DOMAIN reqs :
        /\ SeekOverlap(r2)
        /\ \E r1 \in reqs[r2].conc :
              /\ reqs[r1].kind = "seek" /\ reqs[r1].sid = reqs[r2].sid
              /\ reqs[r1].spawned # 0 /\ reqs[r1].pc = "done"
              /\ reqs[r1].pos # reqs[r2].pos
              /\ procs[reqs[r1].spawned].killed
        /\ Running(procs[reqs[r2].spawned])

\* C7: once the transcoder attached to a job has written a file, every file
\* in the job's output directory was written by that transcoder: a reset
\* (seek, or a start that replaces an inactive job) clears the directory and
\* the previous transcoder writes nothing into it afterwards.
C7_ResetBeforeWrite ==
    \A i \in DOMAIN activeStreams :
        LET e == activeStreams[i]
        IN (e.proc # <<>> /\ \E s \in dirs[e.id].segs : s.by = e.proc[Len(e.proc)])
              => \A s \in dirs[e.id].segs : s.by = e.proc[Len(e.proc)]

----------------------------------------------------------------------------
\* Properties of server.js (Spec).

\* C4: no job id is absent from the registry while a process that belonged
\* to the job has not exited.
C4_TerminatedBeforeDropped ==
    \A p \in DOMAIN procs : Alive(procs[p]) => Has(activeStreams, procs[p].dir)

\* C5: every durable entry written by a start request of this run belongs
\* to a job that is registered.
C5_StoreOnlyRegistered ==
    \A i \in DOMAIN store :
        (\E r \in DOMAIN reqs : reqs[r].spawned # 0 /\ reqs[r].sid = store[i].id)
            => Has(activeStreams, store[i].id)

\* C8: when the startup callback returns, every durable entry whose
\* directory holds a playlist without the end marker has a registered job
\* with a running transcoder on that directory, and the segments of the
\* previous run are still there.
C8_RecoveryReattaches ==
    [][Listen =>
        \A i \in DOMAIN store :
            LET id == store[i].id
            IN dirs[id].m3u8 = "live" =>
                  /\ Has(activeStreams', id)
                  /\ \E p \in DOMAIN procs' : procs'[p].dir = id /\ Running(procs'[p])
                  /\ dirs[id].segs \subseteq dirs'[id].segs]_vars

----------------------------------------------------------------------------
\* Properties of server-old.js (SpecOld, SpecRecover).

StartKinds == {"torrent", "local", "url"}

\* the requests that spawn a transcoder in this step
SpawnsNow(r) ==
    /\ reqs'[r].spawned # 0
    /\ r \in DOMAIN reqs => reqs[r].spawned = 0

\* C1: a start request never spawns a transcoder while the transcoder
\* spawned by another start request for the same source and file index,
\* which was not yet answered when this one arrived, is running: of
\* concurrent starts with one identity exactly one spawns.
C1_SingleFlight ==
    [][\A r \in DOMAIN reqs' :
          (reqs'[r].kind \in StartKinds /\ SpawnsNow(r)) =>
              \A r1 \in reqs'[r].conc :
                  ~(/\ reqs[r1].kind \in StartKinds
                    /\ reqs[r1].sid = reqs'[r].sid
                    /\ reqs[r1].spawned # 0
                    /\ Running(procs[reqs[r1].spawned]))]_vars

\* C2: per torrent job at most one transcoder that is neither killed nor
\* exited.
C2_OneTranscoderPerJob ==
    \A id \in TorrentIds :
        \A p, q \in ProcsOf(id) : (Running(procs[p]) /\ Running(procs[q])) => p = q

\* C3: a reaper sweep leaves no process that is neither killed nor exited
\* on the directory of a job that was idle for more than the threshold.
C3_SweepLeavesNoProcess ==
    [][ReaperOld =>
        \A i \in DOMAIN activeStreams :
            now - activeStreams[i].lastUsed > IdleMinutes
                => \A p \in ProcsOf(activeStreams[i].id) : ~Running(procs'[p])]_vars

\* C9: once restoreTorrentStreams has returned, the store holds no entry
\* whose playlist is finished and no entry whose directory or playlist is
\* missing, and no transcoder was spawned for such an entry.
C9_StaleEntriesDropped ==
    restore.pc = "done" =>
        \A i \in DOMAIN store :
            /\ dirs[store[i].id].exists
            /\ dirs[store[i].id].m3u8 = "live"

\* the states of one source in the store, and the newest among them
SameSource(st, state) == {t \in Range(st) : t.infoHash = state.infoHash}
IsNewest(st, state) == \A t \in SameSource(st, state) : t.savedAt <= state.savedAt

\* C10: the startup keeps per source only a state with the greatest savedAt
\* (all others leave the store in the same step), and engines and
\* transcoders of the recovery exist only for the kept states: at most one
\* engine per kept state and transcoders only on their directories.
C10_NewestOnly ==
    /\ [][ListenOld =>
            /\ \A i \in DOMAIN restore'.best : IsNewest(store, restore'.best[i])
            /\ \A t \in Range(store) :
                  (\E u \in SameSource(store, t) : u.savedAt > t.savedAt)
                      => /\ ~Has(store', t.id)
                         /\ ~Has(restore'.best, t.id)
            /\ \A t \in Range(store) :
                  Cardinality({u \in Range(store') : u.infoHash = t.infoHash}) <= 1]_vars
    /\ [](/\ \A p \in DOMAIN procs :
                procs[p].role = "restore" => Has(restore.best, procs[p].dir)
          /\ Cardinality({e \in DOMAIN engines : engines[e].by = "restore"})
                <= Len(restore.best))

\* two states of one source with different savedAt were in the store, the
\* older one is gone and the transcoder of the newer one has been spawned
C10_Witness ==
    /\ Len(restore.best) = 1
    /\ restore.pc = "done"
    /\ \E p \in DOMAIN procs :
          /\ procs[p].role = "restore"
          /\ procs[p].dir = restore.best[1].id
          /\ restore.best[1].savedAt = -1
          /\ \E id \in TorrentIds \ {procs[p].dir} :
                /\ dirs[id].m3u8 = "live"
                /\ ~Has(store, id)
                /\ ProcsOf(id) = {}
    /\ Len(store) = 1

\* ---- GET /hls/:id.m3u8 (server.js) ----
MaxAttempts == 60

\* what an id of the model can have after another id of the model
Suffixes == {"", "0"}
\* id.startsWith(partialId)
startsWith(id, partialId) == \E s \in Suffixes : id = partialId \o s

\* the first entry, in insertion order, whose id starts with partialId
findStreamByPrefix(partialId) ==
    LET at == {i \in DOMAIN activeStreams : startsWith(activeStreams[i].id, partialId)}
    IN IF at = {} THEN NoEntry
       ELSE activeStreams[CHOOSE i \in at : \A j \in at : i <= j]

markStreamUsed(streams, entry) == MapSet(streams, [entry EXCEPT !.lastUsed = now])

\* fs.existsSync(path.join(entry.hlsDir, "index.m3u8"))
existsPlaylist(id) == dirs[id].exists /\ dirs[id].m3u8 # "none"

\* a loop that gives up without waiting
pollNever(exists, attempts) == FALSE

\* while (!fs.existsSync(filePath) && attempts < 60)
pollAgain(exists, attempts) == ~exists /\ attempts < MaxAttempts

\* the handler up to its first await, or to its response
Manifest(partialId) ==
    LET found == findStreamByPrefix(partialId)
        rq == [NewReq("manifest", partialId, 0) EXCEPT !.out = found.id,
                                                       !.obj = found.obj]
    IN /\ booted
       /\ IF found.obj = NoObj
          THEN /\ reqs' = Append(reqs, [rq EXCEPT !.status = 404])
               /\ UNCHANGED activeStreams
          ELSE /\ activeStreams' = markStreamUsed(activeStreams, found)
               /\ reqs' = Append(reqs,
                      IF pollAgain(existsPlaylist(found.id), 0)
                      THEN [rq EXCEPT !.pc = "poll"]
                      ELSE [rq EXCEPT !.status = IF existsPlaylist(found.id)
                                                 THEN 200 ELSE 503])
       /\ UNCHANGED <<booted, procs, dirs, store, engines, torrentEngines, restore, now,
                   backgroundDownloads>>

\* the 500 ms timer of the wait loop fires
ManifestPoll(r) ==
    /\ r \in DOMAIN reqs
    /\ reqs[r].kind = "manifest" /\ reqs[r].pc = "poll"
    /\ LET a == reqs[r].attempts + 1
           e == existsPlaylist(reqs[r].out)
       IN reqs' = IF pollAgain(e, a)
                  THEN [reqs EXCEPT ![r].attempts = a]
                  ELSE [reqs EXCEPT ![r].attempts = a, ![r].pc = "done",
                                    ![r].status = IF e THEN 200 ELSE 503]
    /\ UNCHANGED <<booted, activeStreams, procs, dirs, store, engines,
                   torrentEngines, restore, now, backgroundDownloads>>

\* server.js with one torrent job and the manifest requests for it; the timer
\* of a waiting request fires as long as the request waits
MaxPollReqs == 2
PolledIds == {TorrentId("h1", 1)}

InitPoll == InitWith(TorrentId("h1", 1), BOOLEAN)

NextPoll ==
    \/ Listen
    \/ Len(reqs) < MaxPollReqs /\ TorrentStart("h1", 1)
    \/ \E r \in 1..MaxPollReqs : EngineReady(r)
    \/ \E id \in PolledIds : Len(reqs) < MaxPollReqs /\ Manifest(id)
    \/ \E r \in 1..MaxPollReqs : ManifestPoll(r)
    \/ \E pid \in DOMAIN procs : ProcWrite(pid)
    \/ \E pid \in DOMAIN procs : ProcExit(pid, 1)

SpecPoll ==
    /\ InitPoll
    /\ [][NextPoll]_vars
    /\ \A r \in 1..MaxPollReqs : WF_vars(ManifestPoll(r))

\* server.js with the jobs of two files of one torrent, whose ids differ in
\* their last digit only, and the manifest requests for them
MaxPlayReqs == 2
PlayedFiles == {1, 10}
PlayedIds == {TorrentId(h, i) : h \in OneTorrent, i \in PlayedFiles}

InitManifest == InitWith(TorrentId("h1", 1), BOOLEAN)

NextManifest ==
    \/ Listen
    \/ \E h \in OneTorrent, i \in PlayedFiles :
           Len(reqs) < MaxPlayReqs /\ TorrentStart(h, i)
    \/ \E r \in 1..MaxPlayReqs : EngineReady(r)
    \/ \E id \in PlayedIds : Len(reqs) < MaxPlayReqs /\ Manifest(id)
    \/ \E r \in 1..MaxPlayReqs : ManifestPoll(r)
    \/ Reaper
    \/ \E pid \in DOMAIN procs : ProcWrite(pid)
    \/ \E pid \in DOMAIN procs : ProcExit(pid, 1)
    \/ Tick(IdleMinutes + 1)

SpecManifest == InitManifest /\ [][NextManifest]_vars

\* ---- GET /hls/:file(index\d+\.ts) and GET /hls/:id/:file (server.js) ----
SegmentNumbers == 0..MaxSeg

\* fs.existsSync(path.join(entry.hlsDir, file)) for the file index<n>.ts
existsSegment(id, n) == dirs[id].exists /\ \E s \in dirs[id].segs : s.n = n

\* The playlist of a local job names its segments without a base url
\* (buildLocalHlsArgs), so the player of job x asks for /hls/index<n>.ts: the
\* first registered job whose directory has a file of that name serves it.
SegmentByName(x, n) ==
    LET at == {i \in DOMAIN activeStreams : existsSegment(activeStreams[i].id, n)}
        rq == NewReq("ts", x, n)
    IN /\ booted
       /\ Has(activeStreams, x)
       /\ existsPlaylist(x) /\ existsSegment(x, n)
       /\ IF at = {}
          THEN /\ reqs' = Append(reqs, [rq EXCEPT !.status = 404])
               /\ UNCHANGED activeStreams
          ELSE LET entry == activeStreams[CHOOSE i \in at : \A j \in at : i <= j]
               IN /\ activeStreams' = markStreamUsed(activeStreams, entry)
                  /\ reqs' = Append(reqs, [rq EXCEPT !.status = 200, !.out = entry.id])
       /\ UNCHANGED <<booted, procs, dirs, store, engines, torrentEngines, restore, now,
                   backgroundDownloads>>

\* The playlist of a torrent job names its segments under /hls/<streamId>/
\* (hls_base_url), so the player of job x asks for /hls/<x>/index<n>.ts.
SegmentById(x, n) ==
    LET found == findStreamByPrefix(x)
        rq == NewReq("ts", x, n)
    IN /\ booted
       /\ Has(activeStreams, x)
       /\ IF found.obj = NoObj
          THEN /\ reqs' = Append(reqs, [rq EXCEPT !.status = 404])
               /\ UNCHANGED activeStreams
          ELSE /\ activeStreams' = markStreamUsed(activeStreams, found)
               /\ reqs' = Append(reqs,
                      IF existsSegment(found.id, n)
                      THEN [rq EXCEPT !.status = 200, !.out = found.id]
                      ELSE [rq EXCEPT !.status = 404])
       /\ UNCHANGED <<booted, procs, dirs, store, engines, torrentEngines, restore, now,
                   backgroundDownloads>>

\* server.js with a local job, a torrent job and the players of both
NextSegment ==
    \/ Listen
    \/ \E f \in LocalFiles : Len(reqs) < MaxPlayReqs /\ LocalStart(f)
    \/ \E r \in 1..MaxPlayReqs : SegmentWaitDone(r)
    \/ \E h \in OneTorrent : Len(reqs) < MaxPlayReqs /\ TorrentStart(h, 0)
    \/ \E r \in 1..MaxPlayReqs : EngineReady(r)
    \/ \E x \in LocalIds, n \in SegmentNumbers :
           Len(reqs) < MaxPlayReqs /\ SegmentByName(x, n)
    \/ \E x \in EpisodeIds, n \in SegmentNumbers :
           Len(reqs) < MaxPlayReqs /\ SegmentById(x, n)
    \/ \E pid \in DOMAIN procs : ProcWrite(pid)
    \/ \E pid \in DOMAIN procs, code \in {0, 1} : ProcExit(pid, code)

SpecSegment == Init /\ [][NextSegment]_vars

\* server.js with a local job beside what an earlier run left, the players'
\* requests, the clock and the reaper
NextTouch ==
    \/ Listen
    \/ \E f \in LocalFiles : Len(reqs) < MaxPlayReqs /\ LocalStart(f)
    \/ \E r \in 1..MaxPlayReqs : SegmentWaitDone(r)
    \/ \E x \in LocalIds, n \in SegmentNumbers :
           Len(reqs) < MaxPlayReqs /\ SegmentByName(x, n)
    \/ \E x \in LocalIds \cup {TorrentId("h1", 0)} :
           Len(reqs) < MaxPlayReqs /\ Manifest(x)
    \/ \E r \in 1..MaxPlayReqs : ManifestPoll(r)
    \/ Reaper
    \/ \E pid \in DOMAIN procs : ProcWrite(pid)
    \/ Tick(IdleMinutes + 1)

SpecTouch == Init /\ [][NextTouch]_vars

\* ---- the server process ends and is started again ----
\* the registry (const activeStreams = new Map()), the engine cache and the
\* handlers in flight live in the memory of the process and are lost with it;
\* the directories under /tmp, the durable store and the transcoders that
\* were spawned stay
MaxRestartReqs == 2

Restart ==
    /\ booted
    /\ booted' = FALSE
    /\ activeStreams' = <<>>
    /\ reqs' = [r \in DOMAIN reqs |-> [reqs[r] EXCEPT !.pc = "done"]]
    /\ torrentEngines' = [h \in DOMAIN torrentEngines |-> 0]
    /\ UNCHANGED <<procs, dirs, store, engines, restore, now, backgroundDownloads>>

NextRestart ==
    \/ Listen
    \/ Restart
    \/ \E f \in LocalFiles : Len(reqs) < MaxRestartReqs /\ LocalStart(f)
    \/ \E r \in 1..MaxRestartReqs : SegmentWaitDone(r)
    \/ \E x \in LocalIds : Len(reqs) < MaxRestartReqs /\ Manifest(x)
    \/ \E r \in 1..MaxRestartReqs : ManifestPoll(r)
    \/ Reaper
    \/ \E pid \in DOMAIN procs : ProcWrite(pid)
    \/ Tick(IdleMinutes + 1)

SpecRestart == Init /\ [][NextRestart]_vars

\* ---- smart quality switching (server-old.js) ----
ReadyPercent == 30
CompletePercent == 99
\* videoFile.length and the values of engine.swarm.downloaded that are polled
FileLength == 1000
Downloadeds == {200, 295, 985, 1000}
BetterMagnet == "h2"

\* Math.round((downloaded / total) * 100)
Progress(downloaded, total) == (200 * downloaded + total) \div (2 * total)

NewDownload(sid, e, r) ==
    [id |-> sid, obj |-> ReqObj(r), engine |-> e, magnet |-> BetterMagnet,
     downloaded |-> 0, progress |-> 0, status |-> "downloading", interval |-> TRUE]

\* the timer of POST /api/smart-stream calls startBackgroundDownload for the
\* stream that its torrent2mp4 request has started; the call runs to its
\* await of the engine
startBackgroundDownload(sid) ==
    LET r == Len(reqs) + 1
    IN /\ booted
       /\ \E q \in DOMAIN reqs :
             /\ reqs[q].kind = "torrent" /\ reqs[q].pc = "done"
             /\ reqs[q].status = 200 /\ reqs[q].out = sid
       /\ IF Has(backgroundDownloads, sid)
          THEN /\ reqs' = Append(reqs, NewReq("upgrade", sid, 0))
               /\ UNCHANGED engines
          ELSE /\ engines' = Append(engines, NewEngine(BetterMagnet, ReqObj(r)))
               /\ reqs' = Append(reqs, [NewReq("upgrade", sid, 0) EXCEPT
                                           !.pc = "upgrade", !.eng = Len(engines) + 1])
       /\ UNCHANGED <<booted, activeStreams, procs, dirs, store, torrentEngines,
                      restore, now, backgroundDownloads>>

\* e.on("ready"): without a video file the engine is destroyed, with one the
\* download is put into the table and its progress interval starts
BackgroundReady(r, hasVideo) ==
    /\ r \in DOMAIN reqs
    /\ reqs[r].kind = "upgrade" /\ reqs[r].pc = "upgrade"
    /\ LET e == reqs[r].eng
       IN IF hasVideo
          THEN /\ engines' = [engines EXCEPT ![e].state = "ready"]
               /\ backgroundDownloads' =
                      MapSet(backgroundDownloads, NewDownload(reqs[r].sid, e, r))
          ELSE /\ engines' = [engines EXCEPT ![e].state = "destroyed"]
               /\ UNCHANGED backgroundDownloads
    /\ reqs' = [reqs EXCEPT ![r].pc = "done"]
    /\ UNCHANGED <<booted, activeStreams, procs, dirs, store, torrentEngines,
                   restore, now>>

\* "Background torrent timeout": e.destroy(), and the catch deletes the
\* table entry of the stream
BackgroundFail(r) ==
    /\ r \in DOMAIN reqs
    /\ reqs[r].kind = "upgrade" /\ reqs[r].pc = "upgrade"
    /\ engines' = [engines EXCEPT ![reqs[r].eng].state = "destroyed"]
    /\ backgroundDownloads' = MapDelete(backgroundDownloads, reqs[r].sid)
    /\ reqs' = [reqs EXCEPT ![r].pc = "done"]
    /\ UNCHANGED <<booted, activeStreams, procs, dirs, store, torrentEngines,
                   restore, now>>

\* the progress interval of the download in the table fires while the engine
\* has downloaded d bytes: engine.swarm.downloaded never decreases
ProgressInterval(sid, d) ==
    /\ Has(backgroundDownloads, sid)
    /\ LET downloadInfo == Get(backgroundDownloads, sid)
           progress == Progress(d, FileLength)
           ready == IF progress >= ReadyPercent /\ downloadInfo.status = "downloading"
                    THEN "ready" ELSE downloadInfo.status
       IN /\ downloadInfo.interval
          /\ d >= downloadInfo.downloaded
          /\ backgroundDownloads' =
                MapSet(backgroundDownloads,
                       [downloadInfo EXCEPT
                           !.downloaded = d,
                           !.progress = progress,
                           !.status = IF progress >= CompletePercent
                                      THEN "complete" ELSE ready,
                           !.interval = ~(progress >= CompletePercent)])
    /\ UNCHANGED <<booted, activeStreams, procs, dirs, store, engines,
                   torrentEngines, reqs, restore, now>>

\* a test that lets every download through
canSwitchAlways(status) == TRUE

\* download.status === "ready" || download.status === "complete"
canSwitch(status) == status \in {"ready", "complete"}

\* POST /api/switch-quality/:streamId
SwitchQuality(sid) ==
    LET rq == NewReq("switch", sid, 0)
        download == Get(backgroundDownloads, sid)
    IN /\ booted
       /\ reqs' = Append(reqs,
              IF ~Has(backgroundDownloads, sid) \/ ~canSwitch(download.status)
              THEN [rq EXCEPT !.status = 400]
              ELSE [rq EXCEPT !.status = 200, !.out = download.magnet,
                              !.pos = download.progress])
       /\ UNCHANGED <<booted, activeStreams, procs, dirs, store, engines,
                      torrentEngines, restore, now, backgroundDownloads>>

\* server-old.js with one torrent job, the download of a better quality for
\* it, the switch requests and the reaper
MaxUpgradeReqs == 3
UpgradedIds == {TorrentId("h1", 0)}

InitUpgrade == InitWith(TorrentId("h1", 0), {FALSE})

NextUpgrade ==
    \/ ListenOld
    \/ Len(reqs) < MaxUpgradeReqs /\ TorrentStartOld("h1", 0)
    \/ \E r \in 1..MaxUpgradeReqs : EngineReadyOld(r)
    \/ \E sid \in UpgradedIds : Len(reqs) < MaxUpgradeReqs /\ startBackgroundDownload(sid)
    \/ \E r \in 1..MaxUpgradeReqs, hasVideo \in BOOLEAN : BackgroundReady(r, hasVideo)
    \/ \E r \in 1..MaxUpgradeReqs : BackgroundFail(r)
    \/ \E sid \in UpgradedIds, d \in Downloadeds : ProgressInterval(sid, d)
    \/ \E sid \in UpgradedIds : Len(reqs) < MaxUpgradeReqs /\ SwitchQuality(sid)
    \/ ReaperOld
    \/ Tick(IdleMinutes + 1)

SpecUpgrade == InitUpgrade /\ [][NextUpgrade]_vars

\* ---- the durable store of server-old.js under starts of two torrents, the
\* reaper and the startup recovery ----
\* The deaths of the transcoders are left to SpecOld: a registered job without
\* a running transcoder is here the one that the startup scan has found.
MaxStoreReqs == 2
StoreLefts ==
    {<<>>,
     <<StateOf(TorrentId("h1", 0), -1)>>,
     <<StateOf(TorrentId("h1", 0), -1), StateOf(TorrentId("h2", 0), -2)>>}

InitStore ==
    /\ booted = FALSE
    /\ activeStreams = <<>>
    /\ procs = <<>>
    /\ store \in StoreLefts
    /\ dirs \in [Ids -> {NoDir, LiveDir}]
    /\ \A id \in Ids : ~Has(store, id) => dirs[id] = NoDir
    /\ engines = <<>>
    /\ torrentEngines = [h \in Hashes |-> 0]
    /\ reqs = <<>>
    /\ restore = [pc |-> "idle", best |-> <<>>, queue |-> <<>>, eng |-> 0]
    /\ now = 0
    /\ backgroundDownloads = <<>>

NextStore ==
    \/ ListenOld
    \/ RestoreReady
    \/ RestoreFail
    \/ \E h \in Hashes : Len(reqs) < MaxStoreReqs /\ TorrentStartOld(h, 0)
    \/ \E r \in 1..MaxStoreReqs : EngineReadyOld(r)
    \/ ReaperOld
    \/ Tick(IdleMinutes + 1)

SpecStore == InitStore /\ [][NextStore]_vars

----------------------------------------------------------------------------
\* Properties of the durable store, the manifest route and the engines.

\* request r is answered in this step
AnsweredNow(r) ==
    /\ reqs'[r].pc = "done"
    /\ r \in DOMAIN reqs => reqs[r].pc # "done"

\* C11: when a start request that created a job (spawned its transcoder) is
\* answered with success, the durable store holds an entry for the job's
\* streamId.
C11_SavedBeforeSuccess ==
    [][\A r \in DOMAIN reqs' :
          (/\ AnsweredNow(r)
           /\ reqs'[r].kind \in StartKinds
           /\ reqs'[r].spawned # 0
           /\ reqs'[r].status = 200)
              => Has(store', reqs'[r].sid)]_vars


\* a start handler saves id in this step
SavedNow(id) ==
    \E r \in DOMAIN reqs' :
        /\ AnsweredNow(r)
        /\ reqs'[r].kind = "torrent"
        /\ reqs'[r].spawned # 0
        /\ reqs'[r].sid = id

\* the reaper or an episode switch drops id from the registry in this step
DroppedNow(id) == Has(activeStreams, id) /\ ~Has(activeStreams', id)

\* startup recovery judges the state of id stale in this step: an older state
\* of its torrent, or a state whose directory has no playlist
RecoveryDrops(id) ==
    /\ restore' # restore
    /\ Has(store, id)
    /\ \/ ~dirs[id].exists
       \/ dirs[id].m3u8 = "none"
       \/ /\ ~booted
          /\ \E j \in DOMAIN store :
                /\ store[j].id # id
                /\ store[j].infoHash = Get(store, id).infoHash
                /\ store[j].savedAt >= Get(store, id).savedAt

Matched(partialId) ==
    \E i \in DOMAIN activeStreams : startsWith(activeStreams[i].id, partialId)

Reaped(id) == booted /\ dirs[id].exists /\ ~Has(activeStreams, id)

\* C14: a manifest request for the id of a job that the reaper has dropped is
\* answered 404 at once, whatever other jobs are registered.
C14_ReapedIsNotFound ==
    [][\A r \in DOMAIN reqs' :
          (/\ r \notin DOMAIN reqs
           /\ reqs'[r].kind = "manifest"
           /\ Reaped(reqs'[r].sid))
              => (reqs'[r].pc = "done" /\ reqs'[r].status = 404)]_vars


\* C15: a segment request of the player of job x that is answered with a file
\* is answered from the directory of x.
C15_OwnDirectory ==
    [][\A r \in DOMAIN reqs' :
          (/\ r \notin DOMAIN reqs
           /\ reqs'[r].kind = "ts"
           /\ reqs'[r].status = 200)
              => reqs'[r].out = reqs'[r].sid]_vars


\* an engine that was created and not destroyed
LiveEngine(e) == engines[e].state # "destroyed"

\* C16: no two live engines exist for one infoHash.
C16_OneEnginePerHash ==
    \A e1 \in DOMAIN engines, e2 \in DOMAIN engines :
        (e1 # e2 /\ LiveEngine(e1) /\ LiveEngine(e2))
            => engines[e1].hash # engines[e2].hash


\* C17: a step that drops a job from the registry leaves the job's processes
\* signalled or exited and, when no remaining job uses the job's engine,
\* leaves that engine destroyed and out of the engine cache.
C17_RemoveReleasesEngine ==
    [][\A i \in DOMAIN activeStreams :
          LET entry == activeStreams[i]
              e == entry.engine
          IN ~Has(activeStreams', entry.id) =>
                /\ \A pid \in Range(entry.proc) : ~Running(procs'[pid])
                /\ (e # 0 /\ \A j \in DOMAIN activeStreams' :
                                  activeStreams'[j].engine # e)
                      => (/\ engines'[e].state = "destroyed"
                          /\ torrentEngines'[engines'[e].hash] # e)]_vars


----------------------------------------------------------------------------
\* Properties of the downloads of a better quality (SpecUpgrade).

\* C18: a switch request fails when the table has no download for the stream,
\* when the download's status is neither ready nor complete, and when its
\* polled progress is below 30; a switch request that succeeds returns the
\* magnet of the download and changes nothing but the list of requests.
C18_SwitchNeedsReady ==
    [][\A r \in DOMAIN reqs' :
          (r \notin DOMAIN reqs /\ reqs'[r].kind = "switch") =>
              LET q == reqs'[r]
                  has == Has(backgroundDownloads, q.sid)
                  download == Get(backgroundDownloads, q.sid)
              IN /\ q.pc = "done" /\ q.status \in {200, 400}
                 /\ (~has \/ download.status \notin {"ready", "complete"})
                        => q.status = 400
                 /\ (has /\ download.progress < ReadyPercent) => q.status = 400
                 /\ q.status = 200 =>
                        /\ q.out = download.magnet
                        /\ UNCHANGED <<booted, activeStreams, procs, dirs, store,
                                       engines, torrentEngines, restore, now,
                                       backgroundDownloads>>]_vars

\* a switch request has succeeded for a registered job
C18_Witness ==
    \E r \in DOMAIN reqs :
        /\ reqs[r].kind = "switch"
        /\ reqs[r].status = 200
        /\ Has(activeStreams, reqs[r].sid)


\* C19: a download whose polled progress has reached 30 is ready or complete,
\* and a download is complete only with a progress of 100 or more.
C19_CompleteAtHundred ==
    \A i \in DOMAIN backgroundDownloads :
        LET download == backgroundDownloads[i]
        IN /\ download.progress >= ReadyPercent
                => download.status \in {"ready", "complete"}
           /\ download.status = "complete" => download.progress >= 100

\* the engine of a download is destroyed and its interval is cleared
Released(download) ==
    /\ engines'[download.engine].state = "destroyed"
    /\ \A j \in DOMAIN backgroundDownloads' :
          backgroundDownloads'[j].obj = download.obj
              => ~backgroundDownloads'[j].interval

\* C20: a step that drops the parent job of a download from the registry, and
\* a step that answers a switch request with success, leaves the download out
\* of the table, with its interval cleared and its engine destroyed.
C20_TaskEndsWithParent ==
    [][\A i \in DOMAIN backgroundDownloads :
          LET download == backgroundDownloads[i]
              dropped == /\ Has(activeStreams, download.id)
                         /\ ~Has(activeStreams', download.id)
              switched == \E r \in DOMAIN reqs' :
                             /\ r \notin DOMAIN reqs
                             /\ reqs'[r].kind = "switch"
                             /\ reqs'[r].sid = download.id
                             /\ reqs'[r].status = 200
          IN (dropped \/ switched)
                => (~Has(backgroundDownloads', download.id) /\ Released(download))]_vars


----------------------------------------------------------------------------
\* Properties of the transcoder runs of one job.

\* C21: when a new transcoder run is started for a job, its start number is
\* greater than or equal to the number of every segment that the earlier runs
\* of the job have left in the job's directory.
C21_StartNumberMonotone ==
    [][\A pid \in DOMAIN procs' :
          (pid \notin DOMAIN procs /\ procs'[pid].role # "ytdlp") =>
              \A s \in dirs[procs'[pid].dir].segs :
                  s.by # 0 => procs'[pid].startNumber >= s.n]_vars

OwnsRunning(id) ==
    /\ Has(activeStreams, id)
    /\ \E pid \in Range(Get(activeStreams, id).proc) :
           procs[pid].exitCode = -1 /\ ~procs[pid].killed

\* C22: isStreamActive(entry) is true exactly when the entry is registered and
\* owns a process that has not exited and was not killed, and for a job whose
\* playlist has no end marker the restart path (isStreamDead) treats the job
\* as alive under exactly that condition.
C22_AliveSameCondition ==
    \A id \in Ids :
        /\ isStreamActive(getStream(id)) = OwnsRunning(id)
        /\ (Has(activeStreams, id) /\ dirs[id].m3u8 = "live") =>
               (~isStreamDead(getStream(id)) = isStreamActive(getStream(id)))

CrashedJob(sid) ==
    /\ Has(activeStreams, sid)
    /\ Has(store, sid)
    /\ dirs[sid].m3u8 # "end"
    /\ Get(activeStreams, sid).proc # <<>>
    /\ \A pid \in Range(Get(activeStreams, sid).proc) : procs[pid].exitCode > 0

C23_StaysRegistered ==
    (\E pid \in DOMAIN procs :
        /\ procs[pid].exitCode = -1
        /\ procs'[pid].exitCode > 0
        /\ ~procs'[pid].killed)
    => \A id \in Ids : Has(activeStreams, id) => Has(activeStreams', id)

C23_TakesRestartPath ==
    \A sid \in EpisodeIds :
        (/\ Len(reqs') = Len(reqs) + 1
         /\ reqs'[Len(reqs')].kind = "manifest"
         /\ reqs'[Len(reqs')].sid = sid
         /\ CrashedJob(sid))
        => (reqs'[Len(reqs')].spawned # 0 \/ reqs'[Len(reqs')].pc = "restart")

\* C23: a transcoder that exits with a non-zero code without having been
\* killed, while the playlist of its job has no end marker, leaves the job
\* registered, and the next manifest request for the job, when its durable
\* state exists, takes the restart path: it starts a new transcoder or opens
\* the engine that will feed one.
C23_CrashedJobRestarts == [][C23_StaysRegistered /\ C23_TakesRestartPath]_vars

----------------------------------------------------------------------------
\* Properties of the exit of a transcoder.

\* the transcoder pid of a registered job exits in this step with a non-zero
\* code, without having been signalled
CrashesNow(pid) ==
    /\ pid \in DOMAIN procs
    /\ procs[pid].exitCode = -1
    /\ procs'[pid].exitCode > 0
    /\ ~procs'[pid].killed
    /\ Has(activeStreams, procs[pid].dir)
    /\ pid \in Range(Get(activeStreams, procs[pid].dir).proc)

\* C24: when the transcoder of a job exits with a non-zero code before any
\* segment was produced, the job is removed from the registry.
C24_FailedJobRemoved ==
    [][\A pid \in DOMAIN procs :
          (CrashesNow(pid) /\ dirs[procs[pid].dir].segs = {})
          => ~Has(activeStreams', procs[pid].dir)]_vars

\* C25: when the transcoder of a job exits with a non-zero code after at least
\* one segment exists, the job stays registered and every segment file of the
\* job's directory is still there after the exit.
C25_CrashKeepsSegments ==
    [][\A pid \in DOMAIN procs :
          (CrashesNow(pid) /\ dirs[procs[pid].dir].segs # {})
          => /\ Has(activeStreams', procs[pid].dir)
             /\ dirs'[procs[pid].dir].exists
             /\ dirs[procs[pid].dir].segs \subseteq dirs'[procs[pid].dir].segs]_vars

C25_Witness ==
    \E pid \in DOMAIN procs :
        /\ procs[pid].exitCode > 0
        /\ ~procs[pid].killed
        /\ Has(activeStreams, procs[pid].dir)
        /\ pid \in Range(Get(activeStreams, procs[pid].dir).proc)
        /\ \E s \in dirs[procs[pid].dir].segs : s.by = pid

----------------------------------------------------------------------------
\* Properties of the pipe into a transcoder.

C26_NoReadBeforeDrain ==
    \A pid \in DOMAIN procs :
        (pid \in DOMAIN procs' /\ procs'[pid].pipe.read > procs[pid].pipe.read)
        => /\ ~procs[pid].pipe.needDrain
           /\ procs'[pid].pipe.buffered <= HighWaterMark

\* C26: after a write to the transcoder's input has returned false, no further
\* chunk is read from the source until stdin has drained, so the chunks
\* buffered between source and transcoder never exceed the high water mark.
C26_Backpressure == [][C26_NoReadBeforeDrain]_vars

----------------------------------------------------------------------------
\* Properties of the validation of a local file.

\* the request added by this step, if it is a local-file start whose probe
\* failed or reported less than the minimum duration
RejectedNow ==
    /\ Len(reqs') = Len(reqs) + 1
    /\ reqs'[Len(reqs')].kind = "local"
    /\ reqs'[Len(reqs')].probe < MinDuration

\* C27: a local-file start whose probe fails or reports a duration below 10
\* seconds is answered with an error at once, and spawns no process, leaves
\* every output directory as it was and leaves the registry unchanged.
C27_BadProbeFailsFast ==
    [][RejectedNow =>
          /\ reqs'[Len(reqs')].status = 400
          /\ reqs'[Len(reqs')].pc = "done"
          /\ reqs'[Len(reqs')].spawned = 0
          /\ procs' = procs
          /\ dirs' = dirs
          /\ activeStreams' = activeStreams]_vars

C27_Witness ==
    \E r \in DOMAIN reqs :
        /\ reqs[r].kind = "local"
        /\ reqs[r].probe = 9
        /\ reqs[r].status = 400
        /\ Has(activeStreams, reqs[r].sid)
        /\ isStreamActive(Get(activeStreams, reqs[r].sid))
        /\ \E q \in DOMAIN reqs : q < r /\ reqs[q].kind = "local" /\ reqs[q].probe = ProbeError

----------------------------------------------------------------------------
\* Properties of the timeout of a torrent source.

\* what a destroyed engine e must not have after a step: a place in the engine
\* cache, a job in the registry, a durable state written by the step for a
\* job of e, or a request that did not fail
LeavesNothing(e) ==
    /\ torrentEngines'[engines'[e].hash] # e
    /\ \A i \in DOMAIN activeStreams' : activeStreams'[i].engine # e
    /\ \A i \in DOMAIN store' :
           (store'[i] \notin Range(store) /\ Has(activeStreams', store'[i].id))
           => Get(activeStreams', store'[i].id).engine # e
    /\ \A r \in DOMAIN reqs' :
           (reqs'[r].kind = "torrent" /\ reqs'[r].eng = e) => reqs'[r].status = 500

\* C28: once the timeout has destroyed the engine created for a torrent start,
\* the start has failed with an error and neither the engine cache nor the
\* registry nor the durable store holds anything of that engine, also after
\* the ready event of the engine fires late.
C28_TimeoutLeavesNothing ==
    [][\A e \in DOMAIN engines' :
          engines'[e].state = "destroyed" => LeavesNothing(e)]_vars

----------------------------------------------------------------------------
\* Properties of removeStream and of the sweep.

\* the registry and the processes as removeStream takes them
Here == [streams |-> activeStreams, procs |-> procs, raised |-> FALSE]

\* C29: removeStream(id) raises no error, a second call for the same id and a
\* call for an unknown id change nothing, and a kill of a process that has
\* exited or was already signalled, by removeStream or by the seek handler,
\* changes nothing.
C29_RemoveIdempotent ==
    /\ \A id \in Ids :
          LET once == removeStream(Here, id)
          IN /\ ~once.raised
             /\ removeStream(once, id) = once
             /\ ~Has(activeStreams, id) => once = Here
    /\ \A pid \in DOMAIN procs :
          (procs[pid].killed \/ procs[pid].exitCode # -1)
          => Kill(procs, {pid}) = procs
    /\ \A i \in DOMAIN activeStreams :
          ~activeStreams[i].isArr =>
              SeekKill(SeekKill(procs, activeStreams[i]), activeStreams[i])
                  = SeekKill(procs, activeStreams[i])

\* a sweep has removed a job and signalled its process, which has not exited
\* yet, and the registry still holds a job whose process exited on its own
C29_Witness ==
    /\ \E pid \in DOMAIN procs :
          /\ procs[pid].killed /\ procs[pid].exitCode = -1
          /\ \A i \in DOMAIN activeStreams : pid \notin Range(activeStreams[i].proc)
    /\ \E i \in DOMAIN activeStreams :
          \E pid \in Range(activeStreams[i].proc) :
              pid \in DOMAIN procs /\ ~procs[pid].killed /\ procs[pid].exitCode = 1

Idle(entry) == now - entry.lastUsed > IdleMinutes

\* C30: a sweep raises no error and removes every entry that is past its idle
\* threshold, and only those, whatever the entries hold.
C30_SweepCompletes ==
    /\ ~cleanupOldStreams.raised
    /\ Range(cleanupOldStreams.streams) = {e \in Range(activeStreams) : ~Idle(e)}
    /\ [][Len(activeStreams') < Len(activeStreams)
            => \A i \in DOMAIN activeStreams' : ~Idle(activeStreams'[i])]_vars

\* the registry holds an idle job with an empty slot in its process list whose
\* directory is gone and, after it, an idle job without a process handle
C30_Witness ==
    \E i, j \in DOMAIN activeStreams :
        /\ i < j
        /\ Idle(activeStreams[i]) /\ 0 \in Range(activeStreams[i].proc)
        /\ ~dirs[activeStreams[i].id].exists
        /\ Idle(activeStreams[j]) /\ activeStreams[j].proc = <<>>

----------------------------------------------------------------------------
\* Properties of the idle clock of a job.

\* the request added by this step names exactly the registered job id in a
\* manifest or segment route
RequestsNow(id) ==
    /\ Len(reqs') = Len(reqs) + 1
    /\ reqs'[Len(reqs')].kind \in {"manifest", "ts"}
    /\ reqs'[Len(reqs')].sid = id
    /\ Has(activeStreams, id)

\* the entries a step removes are past the idle threshold, and the entries it
\* keeps are the ones it had, unchanged
SweepsOnlyIdle ==
    Len(activeStreams') < Len(activeStreams)
    => /\ \A e \in Range(activeStreams) \ Range(activeStreams') :
              now - e.lastUsed > IdleMinutes
       /\ Range(activeStreams') \subseteq Range(activeStreams)

\* C31: a manifest or segment request for a registered job sets the lastUsed
\* of that job to the current time, and a sweep removes only jobs whose
\* lastUsed is more than the threshold ago and leaves the other entries as
\* they were; so a job requested in every threshold-long window is not reaped.
C31_RequestedNotReaped ==
    [][/\ \A id \in Ids :
             RequestsNow(id) => /\ Has(activeStreams', id)
                                /\ Get(activeStreams', id).lastUsed = now
       /\ SweepsOnlyIdle]_vars

----------------------------------------------------------------------------
\* Properties of the seek of a local job.

\* the seek request added by this step, if it restarted the transcoder
SeeksNow ==
    /\ Len(reqs') = Len(reqs) + 1
    /\ reqs'[Len(reqs')].kind = "seek"
    /\ reqs'[Len(reqs')].spawned # 0

\* C32: after a seek of a local job to position p the recorded seek position
\* of the job is p and the start number n of the new transcoder is
\* floor(p / 4), which is the segment of the initial run that holds p:
\* n * duration <= p < (n + 1) * duration for the configured duration.
C32_SeekStartNumber ==
    [][SeeksNow =>
          LET rq == reqs'[Len(reqs')]
              n == procs'[rq.spawned].startNumber
          IN /\ rq.pos >= 0
             /\ Get(activeStreams', rq.sid).seekPosition = rq.pos
             /\ n * SegmentDuration <= rq.pos
             /\ rq.pos < (n + 1) * SegmentDuration
             /\ n * ConfigSegmentDuration <= rq.pos
             /\ rq.pos < (n + 1) * ConfigSegmentDuration]_vars

C32_Witness ==
    \E r \in DOMAIN reqs :
        /\ reqs[r].kind = "seek" /\ reqs[r].status = 200 /\ reqs[r].pos = 9
        /\ procs[reqs[r].spawned].startNumber = 2
        /\ Get(activeStreams, reqs[r].sid).seekPosition = 9
        /\ \E q \in DOMAIN reqs : q < r /\ reqs[q].kind = "seek" /\ reqs[q].pos = 5

----------------------------------------------------------------------------
\* Properties of the lookup of a job.

\* C33: the lookup of the routes, given exactly the id of a registered job,
\* returns that job, whatever other jobs are registered and in whatever
\* order.
C33_ExactIdFindsJob ==
    \A id \in Ids :
        Has(activeStreams, id) => findStreamByPrefix(id) = Get(activeStreams, id)

----------------------------------------------------------------------------
\* Properties of a start that fails.

\* a start request is answered with an error in this step
FailsNow ==
    \E r \in DOMAIN reqs' :
        /\ reqs'[r].kind = "torrent" /\ reqs'[r].status = 500
        /\ (r \in DOMAIN reqs => reqs[r].status # 500)

\* C34: a start request that fails leaves every registered job untouched: the
\* registry, the durable store and the processes are unchanged, and the
\* engine of a registered job is neither destroyed nor taken out of the
\* engine cache.
C34_FailedStartTouchesNothing ==
    [][FailsNow =>
          /\ activeStreams' = activeStreams
          /\ store' = store
          /\ \A pid \in DOMAIN procs : procs'[pid] = procs[pid]
          /\ \A i \in DOMAIN activeStreams :
                LET e == activeStreams[i].engine
                IN e # 0 =>
                      /\ engines'[e].state = engines[e].state
                      /\ torrentEngines[engines[e].hash] = e
                            => torrentEngines'[engines[e].hash] = e]_vars

----------------------------------------------------------------------------
\* Properties of a seek that is rejected.

\* C35: a seek request that is rejected (unknown job, job that is not local,
\* original file gone) changes nothing: no process is signalled or started,
\* no output directory is cleared and no entry of the registry changes.
C35_RejectedSeekChangesNothing ==
    [][(/\ Len(reqs') = Len(reqs) + 1
        /\ reqs'[Len(reqs')].kind = "seek"
        /\ reqs'[Len(reqs')].status = 404)
       => (procs' = procs /\ dirs' = dirs /\ activeStreams' = activeStreams)]_vars

(***************************************************************************)
(* Properties of a start over a finished job                               *)
(***************************************************************************)

\* The job id is registered, every transcoder of its entry has exited with
\* code 0 and its playlist carries the end marker.
FinishedJob(id) ==
    /\ Has(activeStreams, id)
    /\ dirs[id].m3u8 = "end"
    /\ \A i \in DOMAIN Get(activeStreams, id).proc :
           LET pid == Get(activeStreams, id).proc[i]
           IN pid \in DOMAIN procs /\ procs[pid].exitCode = 0

\* C36: a start request for a source whose job is still registered but whose
\* transcoder has finished with the complete output does not clear the
\* output directory of that job.
C36_FinishedJobKeepsOutput ==
    [][\A id \in LocalIds :
          (/\ FinishedJob(id)
           /\ Len(reqs') = Len(reqs) + 1
           /\ reqs'[Len(reqs')].kind = "local"
           /\ reqs'[Len(reqs')].sid = id)
          => dirs'[id] = dirs[id]]_vars

(***************************************************************************)
(* Properties of the answer of a local start                               *)
(***************************************************************************)

\* The playlist of the job id exists and lists at least one segment.
ListsSegment(id) == dirs[id].m3u8 # "none" /\ dirs[id].segs # {}

\* C37: a local start is answered with success only when the playlist of the
\* job exists and lists at least one segment; when the wait for the first
\* segment ends without one, the caller receives an error.
C37_SuccessNeedsSegment ==
    [][\A r \in DOMAIN reqs :
          (/\ reqs[r].kind = "local"
           /\ reqs[r].pc = "segment"
           /\ reqs'[r].pc = "done"
           /\ reqs'[r].status = 200)
          => ListsSegment(reqs[r].sid)]_vars

(***************************************************************************)
(* Properties of jobs over the files of one torrent                        *)
(***************************************************************************)

\* The job id is registered and one of its transcoders is running.
LiveJob(id) == Has(activeStreams, id) /\ isStreamActive(Get(activeStreams, id))

\* This step spawns a transcoder on the directory of the job id.
StartsJob(id) ==
    /\ Len(procs') = Len(procs) + 1
    /\ procs'[Len(procs')].dir = id

\* C38: jobs for different file indexes of one torrent are independent:
\* starting the job of (H, j) never kills, unregisters or removes the durable
\* entry of a live job of (H, i) with i # j.
C38_EpisodesIndependent ==
    [][\A h \in OneTorrent, i \in Episodes, j \in Episodes :
          (i # j /\ LiveJob(TorrentId(h, i)) /\ StartsJob(TorrentId(h, j)))
          => /\ Has(activeStreams', TorrentId(h, i))
             /\ \A pid \in Range(Get(activeStreams, TorrentId(h, i)).proc) :
                    procs'[pid] = procs[pid]
             /\ Has(store, TorrentId(h, i)) => Has(store', TorrentId(h, i))]_vars

(***************************************************************************)
(* Properties of a reaped job over a restart of the server                 *)
(***************************************************************************)

\* The job id was reaped and not started again: transcoders were spawned on
\* its directory and every one of them was signalled.  A start signals the
\* old transcoder and spawns a new one in the same step, so only the sweep,
\* which unregisters the job in the step that signals, leaves all of them
\* signalled.
ReapedJob(id) ==
    /\ \E pid \in DOMAIN procs : procs[pid].dir = id
    /\ \A pid \in DOMAIN procs : procs[pid].dir = id => procs[pid].killed

\* C39: a job that was reaped is not brought back by a later restart of the
\* server: the startup of the server leaves the id of a reaped job absent
\* from the registry.
C39_ReapedStaysGone ==
    [][(~booted /\ booted')
       => \A id \in LocalIds : ReapedJob(id) => ~Has(activeStreams', id)]_vars

====
